---- MODULE Spec2Model ----
(***************************************************************************)
(* Model of the Veg_TillatProfil / Veg_TillatSegmentert / Veg_TillatKorridor *)
(* pipeline of mrfylke-trendanalyse: the stage-02 profile builders, the     *)
(* stage-03 propagation and the stage-05 cause classifiers.                 *)
(*                                                                         *)
(* Quantities are integers in tenths of the source's unit: 400 is 40 t,    *)
(* 41 is 4.1 m, 195 is 19.5 m.  Margins of different categories are        *)
(* compared with each other by the code, so every quantity is scaled by    *)
(* the same factor.  Positions along a link are integers in hundredths of   *)
(* the link, 100 being the source's 1.0; the source's EPS = 1e-9 is below  *)
(* the resolution of integer positions, so                                 *)
(* left < right - EPS is left < right and left <= right + EPS is           *)
(* left <= right.                                                          *)
(***************************************************************************)
EXTENDS Integers, Sequences, FiniteSets, TLC

VARIABLES
    script,            \* which script this run executes
    pc,                \* position of the script: "start", "rows", ..., "done"
    cur,               \* index of the next row the open cursor returns
    Vegnett,           \* feature class Vegnett: road segments
    Bruksklasse,       \* feature class Bruksklasse / Bruksklasse_904
    Bruer,             \* feature class Bruer
    Hoydebegrensning,  \* feature class Hoydebegrensning_591 / _LAV
    Veg_TillatProfil,  \* output of stage 02
    stats,             \* per-link statistics dictionary of the running script
    Veg_TillatSegmentert, \* segment output of stage 03
    Veg_TillatKorridor,   \* corridor output of stage 03
    Flaskehalser,      \* bottleneck rows, input of stage 05
    Aarsak,            \* output of stage 05
    Vegnett_MedOmkjoringStatus, \* output of 07_blindveg_analyse
    kjoring,           \* number of the run of the script, from 1
    forrige,           \* corridor table and statistics as the previous completed run left them
    utfall,            \* how the run ended: "kjorer" while it runs, "ok", or the exception raised
    logg,              \* warnings printed by the run
    katalog,           \* the geodatabase: the fields of every feature class that exists
    server,            \* the NVDB API: what it answers to a page request
    klient,            \* locals of the paging generator
    foresporsler,      \* the page requests sent so far
    svar,              \* the response to the latest request
    ventet,            \* the waits slept by the retry loop, in order
    err,               \* err_counter["n"] of the fetch loop
    innsatt,           \* rows the InsertCursor has accepted
    cnt_rows           \* cnt_rows of hent_bruer: the row count it reports

\* state of a run of a pipeline script
kjorVars == <<kjoring, forrige, utfall, logg, katalog>>

\* state of the NVDB download
nvdbVars == <<server, klient, foresporsler, svar, ventet, err, innsatt, cnt_rows>>

vars == <<script, pc, cur, Vegnett, Bruksklasse, Bruer, Hoydebegrensning,
          Veg_TillatProfil, stats, Veg_TillatSegmentert, Veg_TillatKorridor,
          Flaskehalser, Aarsak, Vegnett_MedOmkjoringStatus, kjorVars, nvdbVars>>

----------------------------------------------------------------------------
(* Values *)

\* Python's None / a NULL numeric field.  Real quantities are >= 0.
None == -1

\* A NULL text field.
NullText == "NULL"

\* The relative position 1.0, the end of a link: the default the scripts use
\* for a missing SLUTTPOS
LenkeSlutt == 100

\* Bounds of the model
MaxRec == 2     \* records per restriction table
MaxVeg == 2     \* rows of Vegnett

Range(s) == { s[i] : i \in 1..Len(s) }

SeqMin(s) == CHOOSE m \in Range(s) : \A y \in Range(s) : m <= y

Min2(a, b) == IF a <= b THEN a ELSE b

Max2(a, b) == IF a >= b THEN a ELSE b

\* All sequences of at most n distinct elements of U
SeqsUpTo(U, n) ==
    UNION { { s \in [1..k -> U] : \A i, j \in 1..k : i # j => s[i] # s[j] } : k \in 0..n }

\* s with the element at index k removed
RemoveAt(s, k) == [ i \in 1..(Len(s) - 1) |-> IF i < k THEN s[i] ELSE s[i + 1] ]

\* s with r inserted after index k (k = 0: in front)
InsertAt(s, k, r) ==
    [ i \in 1..(Len(s) + 1) |-> IF i <= k THEN s[i] ELSE IF i = k + 1 THEN r ELSE s[i - 1] ]

\* every order in which the rows of s can be read
PermsOf(s) ==
    { t \in [1..Len(s) -> Range(s)] : \A i, j \in 1..Len(s) : i # j => t[i] # t[j] }

----------------------------------------------------------------------------
(* Defaults of the state outside the scripts under study *)

\* The feature classes the geodatabase holds, and for each restriction
\* feature class and each profile table the value fields it has.  The key
\* fields (VEGLENKESEKV_ID, STARTPOS, SLUTTPOS) are present wherever the
\* feature class is.
RestriksjonsFC == {"Bruksklasse", "Bruer", "Hoydebegrensning"}

KomplettKatalog ==
    [ fc   |-> {"Vegnett", "Veg_TillatSegmentert"} \cup RestriksjonsFC,
      felt |-> [ Bruksklasse      |-> {"BK_VERDI", "MAKS_LENGDE"},
                 Bruer            |-> {"TILLATT_TONN", "BRU_NAVN"},
                 Hoydebegrensning |-> {"SKILTET_HOYDE"},
                 Veg_TillatProfil |-> {"BK_VERDI", "MIN_BRU_TONN", "MAKS_LENGDE", "MIN_HOYDE"},
                 Veg_TillatSegmentert |-> {"TONN_PROP", "TILLATT_TONN"} ] ]

\* the first run of a script on a geodatabase that holds every input feature
\* class with every field
ForsteKjoring ==
    /\ kjoring = 1
    /\ forrige = << >>
    /\ utfall = "kjorer"
    /\ logg = {}
    /\ katalog = KomplettKatalog

\* no download in progress
NvdbHvile ==
    /\ server = << >>
    /\ klient = << >>
    /\ foresporsler = << >>
    /\ svar = << >>
    /\ ventet = << >>
    /\ err = 0
    /\ innsatt = 0
    /\ cnt_rows = 0

----------------------------------------------------------------------------
(* Input universes *)

\* Road segments: link 5 whole and in two halves, and link 6
VegUniverse ==
    << [vid |-> 5, s0 |-> 0,  s1 |-> 50],
       [vid |-> 5, s0 |-> 50, s1 |-> 100],
       [vid |-> 5, s0 |-> 0,  s1 |-> 100],
       [vid |-> 6, s0 |-> 0,  s1 |-> 100] >>

\* Bruksklasse records: BK_VERDI and MAKS_LENGDE on a stretch of link 5
BKUniverse ==
    { [vid |-> 5, s0 |-> sp[1], s1 |-> sp[2], bk |-> v[1], ml |-> v[2]] :
        sp \in { <<20, 60>>, <<50, 100>> }, v \in { <<400, 195>>, <<None, 240>> } }

\* Bridges: TILLATT_TONN on a stretch of link 5
BruUniverse ==
    { r \in [vid : {5}, s0 : {0, 55}, s1 : {50, 58}, tonn : {350, 400, 500}] :
        /\ (r.s0 = 55) <=> (r.s1 = 58)
        /\ (r.s0 = 0) <=> (r.tonn = 500) }

\* Height restrictions: a point object on link 5
HoyUniverse == { [vid |-> 5, s0 |-> 58, s1 |-> 58, h |-> 41] }

\* Vegnett in cursor order: a non-empty selection of VegUniverse
VegTables ==
    { [ i \in 1..Len(ix) |-> VegUniverse[ix[i]] ] :
        ix \in { s \in SeqsUpTo(1..Len(VegUniverse), MaxVeg) :
                   /\ Len(s) >= 1
                   /\ \A i \in 1..(Len(s) - 1) : s[i] < s[i + 1] } }

----------------------------------------------------------------------------
(* Helpers of the scripts *)

\* Faulty variant: touching intervals always count, whatever "strict" says.
overlap_alltid_inklusiv(a0, a1, b0, b1, strict) == Max2(a0, b0) <= Min2(a1, b1)

\* overlap(a0, a1, b0, b1, strict)
overlap(a0, a1, b0, b1, strict) ==
    LET left  == Max2(a0, b0)
        right == Min2(a1, b1)
    IN  IF strict THEN left < right ELSE left <= right

\* Faulty variant: the largest non-None value instead of the smallest.
max_or_none(vals) ==
    LET v == SelectSeq(vals, LAMBDA x : x # None)
    IN  IF Len(v) > 0 THEN -SeqMin([i \in 1..Len(v) |-> -v[i]]) ELSE None

\* min_or_none(vals)
min_or_none(vals) ==
    LET v == SelectSeq(vals, LAMBDA x : x # None)
    IN  IF Len(v) > 0 THEN SeqMin(v) ELSE None

\* Faulty variant: the output is written without the Delete in front of it.
ByggUtenSlett(gammel, ny) == gammel \o ny

\* "if arcpy.Exists(OUT): Delete(OUT)" followed by the tool that writes OUT:
\* whatever the table held is gone
SlettOgBygg(gammel, ny) == ny

\* float(x or 0)
FloatOr0(x) == IF x = None THEN 0 ELSE x

STRICT_OVERLAP == TRUE

----------------------------------------------------------------------------
(* Rows of Veg_TillatProfil.  Every variant writes a subset of these       *)
(* fields; a field a variant does not have stays NULL.                     *)

NullRow(seg) ==
    [ vid |-> seg.vid, s0 |-> seg.s0, s1 |-> seg.s1,
      BK_VERDI |-> None, MAKS_LENGDE |-> None, MIN_BRU_TONN |-> None,
      MIN_HOYDE |-> None, TILLATT_TONN |-> None,
      BEGRENSNING_KILDE |-> NullText, DIM_KILDE |-> NullText,
      FLASKEHALS_VEG |-> NullText, FLASKEHALS_BRU |-> NullText,
      FLASKEHALS_LENGDE |-> NullText, FLASKEHALS_HOYDE |-> NullText ]

\* CopyFeatures(Vegnett, OUT_FC) followed by AddField of the new fields
CopyVegnett(veg) == [ i \in 1..Len(veg) |-> NullRow(veg[i]) ]

----------------------------------------------------------------------------
(* Normaltransport/02_bygg_tillat_profil_v904.py *)

\* idx_bk / idx_bru / idx_hoy: the records with a VEGLENKESEKV_ID, positions
\* through float(a or 0)
V904Index(tab) ==
    LET kept == SelectSeq(tab, LAMBDA r : r.vid # None)
    IN  [ i \in 1..Len(kept) |->
            [ kept[i] EXCEPT !.s0 = FloatOr0(kept[i].s0), !.s1 = FloatOr0(kept[i].s1) ] ]

\* hits_bk: strict=False
V904HitsBk(vid, v0, v1, idx_bk) ==
    SelectSeq(idx_bk, LAMBDA r : r.vid = vid /\ overlap(v0, v1, r.s0, r.s1, FALSE))

\* hits_bru: strict=STRICT_OVERLAP
V904HitsBru(vid, v0, v1, idx_bru) ==
    SelectSeq(idx_bru, LAMBDA r : r.vid = vid /\ overlap(v0, v1, r.s0, r.s1, STRICT_OVERLAP))

\* hits_h: strict=False
V904HitsHoy(vid, v0, v1, idx_hoy) ==
    SelectSeq(idx_hoy, LAMBDA r : r.vid = vid /\ overlap(v0, v1, r.s0, r.s1, FALSE))

\* Faulty variant: the road value wins whenever there is one.
V904TillattKunBk(bk_val, min_bru) == IF bk_val = None THEN min_bru ELSE bk_val

\* TILLATT_TONN = min(bk_val, min_bru) with None handling
V904Tillatt(bk_val, min_bru) ==
    IF bk_val = None /\ min_bru = None THEN None
    ELSE IF bk_val = None THEN min_bru
    ELSE IF min_bru = None THEN bk_val
    ELSE Min2(bk_val, min_bru)

\* the row inserted for one Vegnett row
V904Row(seg, bk, bru, hoy) ==
    LET vid      == seg.vid
        v0       == FloatOr0(seg.s0)
        v1       == FloatOr0(seg.s1)
        hits_bk  == V904HitsBk(vid, v0, v1, V904Index(bk))
        hits_bru == V904HitsBru(vid, v0, v1, V904Index(bru))
        hits_h   == V904HitsHoy(vid, v0, v1, V904Index(hoy))
        bk_val   == min_or_none([ i \in 1..Len(hits_bk) |-> hits_bk[i].bk ])
        maks_len == min_or_none([ i \in 1..Len(hits_bk) |-> hits_bk[i].ml ])
        min_bru  == min_or_none([ i \in 1..Len(hits_bru) |-> hits_bru[i].tonn ])
        min_h    == min_or_none([ i \in 1..Len(hits_h) |-> hits_h[i].h ])
    IN  [ NullRow([vid |-> vid, s0 |-> v0, s1 |-> v1]) EXCEPT
            !.BK_VERDI = bk_val, !.MAKS_LENGDE = maks_len,
            !.MIN_BRU_TONN = min_bru, !.MIN_HOYDE = min_h,
            !.TILLATT_TONN = V904Tillatt(bk_val, min_bru) ]

\* require_fc over the four inputs, then check_fields: the first missing
\* feature class or field raises RuntimeError
V904Validering(kat) ==
    IF ~(({"Vegnett"} \cup RestriksjonsFC) \subseteq kat.fc) THEN "RuntimeError"
    ELSE IF ~({"BK_VERDI", "MAKS_LENGDE"} \subseteq kat.felt.Bruksklasse) THEN "RuntimeError"
    ELSE IF "TILLATT_TONN" \notin kat.felt.Bruer THEN "RuntimeError"
    ELSE IF "SKILTET_HOYDE" \notin kat.felt.Hoydebegrensning THEN "RuntimeError"
    ELSE "kjorer"

\* input validated, lookups built, OUT_FC deleted and created empty
V904_Opprett ==
    /\ script = "v904" /\ pc = "start"
    /\ IF V904Validering(katalog) # "kjorer"
       THEN /\ utfall' = V904Validering(katalog)
            /\ pc' = "avbrutt"
            /\ UNCHANGED <<Veg_TillatProfil, cur>>
       ELSE /\ Veg_TillatProfil' = << >>
            /\ cur' = 1
            /\ pc' = IF Len(Vegnett) = 0 THEN "done" ELSE "rows"
            /\ UNCHANGED utfall
    /\ UNCHANGED <<script, Vegnett, Bruksklasse, Bruer, Hoydebegrensning, stats,
                   Veg_TillatSegmentert, Veg_TillatKorridor, Flaskehalser, Aarsak>>
    /\ UNCHANGED <<kjoring, forrige, logg, katalog, nvdbVars, Vegnett_MedOmkjoringStatus>>

\* one iteration of the SearchCursor loop over Vegnett
V904_FyllRad ==
    /\ script = "v904" /\ pc = "rows" /\ cur <= Len(Vegnett)
    /\ Veg_TillatProfil' =
          IF Vegnett[cur].vid = None THEN Veg_TillatProfil
          ELSE Append(Veg_TillatProfil,
                      V904Row(Vegnett[cur], Bruksklasse, Bruer, Hoydebegrensning))
    /\ cur' = cur + 1
    /\ pc' = IF cur = Len(Vegnett) THEN "done" ELSE "rows"
    /\ UNCHANGED <<script, Vegnett, Bruksklasse, Bruer, Hoydebegrensning, stats,
                   Veg_TillatSegmentert, Veg_TillatKorridor, Flaskehalser, Aarsak>>
    /\ UNCHANGED <<kjorVars, nvdbVars, Vegnett_MedOmkjoringStatus>>

----------------------------------------------------------------------------
(* 02_bygg_testversjon.py *)

\* the literal 999 / 999.0 that stands for "nothing found yet"
Sentinel999 == 9990

\* load_data(fc, fields)[vid]: the rows stored under key vid, in read order
load_data(tab, vid) == SelectSeq(tab, LAMBDA r : r.vid = vid)

\* overlap_pos(a0, a1, b0, b1)
overlap_pos(a0, a1, b0, b1) == Max2(a0, b0) < Min2(a1, b1)

\* row[1] / row[2] with their defaults 0.0 and 1.0
TestV0(seg) == IF seg.s0 # None THEN seg.s0 ELSE 0

TestV1(seg) == IF seg.s1 # None THEN seg.s1 ELSE LenkeSlutt

\* one iteration of "for b_row in bk_data[vid]" on curr_bk
TestBkSteg(curr, v0, v1, b) ==
    IF b.s0 = None \/ b.s1 = None THEN curr
    ELSE IF overlap_pos(v0, v1, b.s0, b.s1) /\ b.bk # None THEN Min2(curr, b.bk)
    ELSE curr

\* the same iteration on curr_len
TestLenSteg(curr, v0, v1, b) ==
    IF b.s0 = None \/ b.s1 = None THEN curr
    ELSE IF overlap_pos(v0, v1, b.s0, b.s1) /\ b.ml # None THEN Min2(curr, b.ml)
    ELSE curr

\* Faulty variant: the bridge read last replaces the value held.
TestBruStegSiste(curr, v0, v1, b) ==
    IF b.s0 = None \/ b.s1 = None THEN curr
    ELSE IF overlap_pos(v0, v1, b.s0, b.s1) /\ b.tonn # None THEN b.tonn
    ELSE curr

\* one iteration of "for b_row in bru_data[vid]" on curr_bru
TestBruSteg(curr, v0, v1, b) ==
    IF b.s0 = None \/ b.s1 = None THEN curr
    ELSE IF overlap_pos(v0, v1, b.s0, b.s1) /\ b.tonn # None /\ b.tonn < curr THEN b.tonn
    ELSE curr

\* one iteration of "for h_row in hoyde_data[vid]" on curr_hoy
TestHoySteg(curr, h) == IF h.h # None THEN Min2(curr, h.h) ELSE curr

TestCurrBk(v0, v1, rows) ==
    LET f[i \in 0..Len(rows)] ==
            IF i = 0 THEN Sentinel999 ELSE TestBkSteg(f[i - 1], v0, v1, rows[i])
    IN  f[Len(rows)]

TestCurrLen(v0, v1, rows) ==
    LET f[i \in 0..Len(rows)] ==
            IF i = 0 THEN Sentinel999 ELSE TestLenSteg(f[i - 1], v0, v1, rows[i])
    IN  f[Len(rows)]

TestCurrBru(v0, v1, rows) ==
    LET f[i \in 0..Len(rows)] ==
            IF i = 0 THEN Sentinel999 ELSE TestBruSteg(f[i - 1], v0, v1, rows[i])
    IN  f[Len(rows)]

TestCurrHoy(rows) ==
    LET f[i \in 0..Len(rows)] ==
            IF i = 0 THEN Sentinel999 ELSE TestHoySteg(f[i - 1], rows[i])
    IN  f[Len(rows)]

\* res_x = curr_x if curr_x != 999 else None
\* Faulty variant: the sentinel is written as if it were a value.
TestResMedSentinel(curr) == curr

TestRes(curr) == IF curr # Sentinel999 THEN curr ELSE None

\* limit_vekt
TestLimitVekt(curr_bk, curr_bru) ==
    LET limit_vekt == Min2(curr_bk, curr_bru)
    IN  IF limit_vekt = Sentinel999 THEN None ELSE limit_vekt

\* kilde (BEGRENSNING_KILDE)
TestKilde(res_bk, res_bru) ==
    IF res_bru # None /\ (res_bk = None \/ res_bru <= res_bk) THEN "BRU"
    ELSE IF res_bk # None THEN "VEGLISTE"
    ELSE "UKJENT"

\* id_min_bk.get(vid): min of BK_VERDI over all rows of the link, None if the
\* link has no Bruksklasse row
id_min_bk(tab, vid) ==
    LET rows == load_data(tab, vid)
        f[i \in 0..Len(rows)] ==
            IF i = 0 THEN None
            ELSE IF rows[i].bk = None THEN f[i - 1]
            ELSE IF f[i - 1] = None THEN rows[i].bk
            ELSE Min2(f[i - 1], rows[i].bk)
    IN  f[Len(rows)]

\* id_min_bru.get(vid)
id_min_bru(tab, vid) ==
    LET rows == load_data(tab, vid)
        f[i \in 0..Len(rows)] ==
            IF i = 0 THEN None
            ELSE IF rows[i].tonn = None THEN f[i - 1]
            ELSE IF f[i - 1] = None THEN rows[i].tonn
            ELSE Min2(f[i - 1], rows[i].tonn)
    IN  f[Len(rows)]

\* corridor_dim_kilde(min_bk, min_bru)
corridor_dim_kilde(min_bk, min_bru) ==
    IF min_bru # None /\ (min_bk = None \/ min_bru <= min_bk) THEN "BRU"
    ELSE IF min_bk # None THEN "VEG"
    ELSE NullText

\* the row written back for one row of the copy of Vegnett
TestRow(seg, bk, bru, hoy) ==
    LET vid      == seg.vid
        v0       == TestV0(seg)
        v1       == TestV1(seg)
        curr_bk  == TestCurrBk(v0, v1, load_data(bk, vid))
        curr_len == TestCurrLen(v0, v1, load_data(bk, vid))
        curr_bru == TestCurrBru(v0, v1, load_data(bru, vid))
        curr_hoy == TestCurrHoy(load_data(hoy, vid))
        res_bk   == TestRes(curr_bk)
        res_bru  == TestRes(curr_bru)
    IN  [ NullRow(seg) EXCEPT
            !.BK_VERDI = res_bk, !.MIN_BRU_TONN = res_bru,
            !.MAKS_LENGDE = TestRes(curr_len), !.MIN_HOYDE = TestRes(curr_hoy),
            !.TILLATT_TONN = TestLimitVekt(curr_bk, curr_bru),
            !.BEGRENSNING_KILDE = TestKilde(res_bk, res_bru),
            !.DIM_KILDE = corridor_dim_kilde(id_min_bk(bk, vid), id_min_bru(bru, vid)) ]

\* load_data: the lines it prints.  A feature class that does not exist
\* gives "Finner ikke", one that lacks a requested field "Mangler felter".
TestAdvarsler(kat) ==
    { <<"Finner ikke", fc>> : fc \in RestriksjonsFC \ kat.fc }
      \cup { <<"Mangler felter", fc>> :
               fc \in { f \in RestriksjonsFC \cap kat.fc :
                          kat.felt[f] # KomplettKatalog.felt[f] } }

\* load_data: {} for a feature class that does not exist
TestData(kat, fc, tab) == IF fc \in kat.fc THEN tab ELSE << >>

\* load_data reads the requested fields that exist, in the requested
\* order, and the script addresses the tuple by position: b_row[3] is the
\* first restriction field that exists, b_row[4] (read under
\* "len(b_row) > 4") the second.
TestLestBk(kat, tab) ==
    LET felt == kat.felt.Bruksklasse
    IN  [ i \in 1..Len(tab) |->
            [ tab[i] EXCEPT
                !.bk = IF "BK_VERDI" \in felt THEN tab[i].bk ELSE tab[i].ml,
                !.ml = IF {"BK_VERDI", "MAKS_LENGDE"} \subseteq felt
                       THEN tab[i].ml ELSE None ] ]

\* the exception that ends the script before its row loop, "kjorer" if
\* none: r[3] on a three-field tuple in the corridor minima, then
\* CopyFeatures on a Vegnett that does not exist
TestOpprettFeil(kat, bk, bru) ==
    IF Len(TestData(kat, "Bruksklasse", bk)) > 0 /\ kat.felt.Bruksklasse = {}
    THEN "IndexError"
    ELSE IF Len(TestData(kat, "Bruer", bru)) > 0 /\ kat.felt.Bruer = {}
    THEN "IndexError"
    ELSE IF "Vegnett" \notin kat.fc THEN "ExecuteError"
    ELSE "kjorer"

\* the exception that ends the row loop at this row, "kjorer" if none.
\* Without TILLATT_TONN b_row[3] is BRU_NAVN, a text (every bridge of the
\* model carries a name): "bru_val < curr_bru" and "min_bru <= min_bk"
\* compare text with a number.  Without BRU_NAVN b_row[4] does not exist.
\* Without SKILTET_HOYDE h_row[1] does not exist.
TestRadFeil(kat, seg, bk, bru, hoy) ==
    LET v0      == TestV0(seg)
        v1      == TestV1(seg)
        bruRows == load_data(TestData(kat, "Bruer", bru), seg.vid)
        hoyRows == load_data(TestData(kat, "Hoydebegrensning", hoy), seg.vid)
        bkLest  == TestLestBk(kat, TestData(kat, "Bruksklasse", bk))
        treff   == { i \in 1..Len(bruRows) :
                       /\ bruRows[i].s0 # None /\ bruRows[i].s1 # None
                       /\ overlap_pos(v0, v1, bruRows[i].s0, bruRows[i].s1) }
    IN  IF kat.felt.Bruer = {"BRU_NAVN"} /\ treff # {} THEN "TypeError"
        ELSE IF /\ kat.felt.Bruer = {"TILLATT_TONN"}
                /\ \E i \in treff : bruRows[i].tonn # None /\ bruRows[i].tonn < Sentinel999
        THEN "IndexError"
        ELSE IF "SKILTET_HOYDE" \notin kat.felt.Hoydebegrensning /\ Len(hoyRows) > 0
        THEN "IndexError"
        ELSE IF /\ kat.felt.Bruer = {"BRU_NAVN"} /\ Len(bruRows) > 0
                /\ id_min_bk(bkLest, seg.vid) # None
        THEN "TypeError"
        ELSE "kjorer"

\* the row written back when the fields are read as the geodatabase has
\* them.  With BRU_NAVN in the place of TILLATT_TONN and no exception, the
\* link's bridge minimum is a text and its BK minimum None: DIM_KILDE "BRU".
TestRowLest(kat, seg, bk, bru, hoy) ==
    LET bkLest   == TestLestBk(kat, TestData(kat, "Bruksklasse", bk))
        bruData  == TestData(kat, "Bruer", bru)
        hoyData  == TestData(kat, "Hoydebegrensning", hoy)
    IN  IF kat.felt.Bruer = {"BRU_NAVN"}
        THEN [ TestRow(seg, bkLest, << >>, hoyData) EXCEPT
                 !.DIM_KILDE = IF Len(load_data(bruData, seg.vid)) > 0 THEN "BRU" ELSE @ ]
        ELSE TestRow(seg, bkLest, bruData, hoyData)

\* reference data loaded, corridor minima computed, OUT_FC deleted and
\* recreated as a copy of Vegnett with the new fields
Test_Opprett ==
    /\ script = "test" /\ pc = "start"
    /\ logg' = logg \cup TestAdvarsler(katalog)
    /\ LET feil == TestOpprettFeil(katalog, Bruksklasse, Bruer)
       IN  IF feil # "kjorer"
           THEN /\ utfall' = feil
                /\ pc' = "avbrutt"
                /\ Veg_TillatProfil' =
                      IF feil = "ExecuteError" THEN << >> ELSE Veg_TillatProfil
                /\ UNCHANGED cur
           ELSE /\ Veg_TillatProfil' = CopyVegnett(Vegnett)
                /\ cur' = 1
                /\ pc' = IF Len(Vegnett) = 0 THEN "done" ELSE "rows"
                /\ UNCHANGED utfall
    /\ UNCHANGED <<script, Vegnett, Bruksklasse, Bruer, Hoydebegrensning, stats,
                   Veg_TillatSegmentert, Veg_TillatKorridor, Flaskehalser, Aarsak>>
    /\ UNCHANGED <<kjoring, forrige, katalog, nvdbVars, Vegnett_MedOmkjoringStatus>>

\* one iteration of the UpdateCursor loop
Test_OppdaterRad ==
    /\ script = "test" /\ pc = "rows" /\ cur <= Len(Veg_TillatProfil)
    /\ LET feil == TestRadFeil(katalog, Veg_TillatProfil[cur],
                               Bruksklasse, Bruer, Hoydebegrensning)
       IN  IF feil # "kjorer"
           THEN /\ utfall' = feil
                /\ pc' = "avbrutt"
                /\ UNCHANGED <<Veg_TillatProfil, cur>>
           ELSE /\ Veg_TillatProfil' =
                      [ Veg_TillatProfil EXCEPT
                          ![cur] = TestRowLest(katalog, Veg_TillatProfil[cur],
                                               Bruksklasse, Bruer, Hoydebegrensning) ]
                /\ cur' = cur + 1
                /\ pc' = IF cur = Len(Veg_TillatProfil) THEN "done" ELSE "rows"
                /\ UNCHANGED utfall
    /\ UNCHANGED <<script, Vegnett, Bruksklasse, Bruer, Hoydebegrensning, stats,
                   Veg_TillatSegmentert, Veg_TillatKorridor, Flaskehalser, Aarsak>>
    /\ UNCHANGED <<kjoring, forrige, logg, katalog, nvdbVars, Vegnett_MedOmkjoringStatus>>

----------------------------------------------------------------------------
(* Tømmertransport/02_bygg_tillat_profil_bak.py *)

\* "if max(v0, b_start) < min(v1, b_slutt)" and the update of curr_bk
BakBkSteg(curr, v0, v1, b) ==
    IF Max2(v0, b.s0) < Min2(v1, b.s1) /\ b.bk # None THEN Min2(curr, b.bk) ELSE curr

BakLenSteg(curr, v0, v1, b) ==
    IF Max2(v0, b.s0) < Min2(v1, b.s1) /\ b.ml # None THEN Min2(curr, b.ml) ELSE curr

BakBruSteg(curr, v0, v1, b) ==
    IF Max2(v0, b.s0) < Min2(v1, b.s1) /\ b.tonn # None /\ b.tonn < curr THEN b.tonn
    ELSE curr

BakCurrBk(v0, v1, rows) ==
    LET f[i \in 0..Len(rows)] ==
            IF i = 0 THEN Sentinel999 ELSE BakBkSteg(f[i - 1], v0, v1, rows[i])
    IN  f[Len(rows)]

BakCurrLen(v0, v1, rows) ==
    LET f[i \in 0..Len(rows)] ==
            IF i = 0 THEN Sentinel999 ELSE BakLenSteg(f[i - 1], v0, v1, rows[i])
    IN  f[Len(rows)]

BakCurrBru(v0, v1, rows) ==
    LET f[i \in 0..Len(rows)] ==
            IF i = 0 THEN Sentinel999 ELSE BakBruSteg(f[i - 1], v0, v1, rows[i])
    IN  f[Len(rows)]

\* kilde: strict comparison of the loop variables
BakKilde(curr_bk, curr_bru) ==
    IF curr_bru < curr_bk THEN "BRU"
    ELSE IF curr_bk < Sentinel999 THEN "VEGLISTE"
    ELSE "UKJENT"

BakRow(seg, bk, bru, hoy) ==
    LET vid      == seg.vid
        curr_bk  == BakCurrBk(seg.s0, seg.s1, load_data(bk, vid))
        curr_len == BakCurrLen(seg.s0, seg.s1, load_data(bk, vid))
        curr_bru == BakCurrBru(seg.s0, seg.s1, load_data(bru, vid))
        curr_hoy == TestCurrHoy(load_data(hoy, vid))
    IN  [ NullRow(seg) EXCEPT
            !.BK_VERDI = TestRes(curr_bk), !.MIN_BRU_TONN = TestRes(curr_bru),
            !.MAKS_LENGDE = TestRes(curr_len), !.MIN_HOYDE = TestRes(curr_hoy),
            !.TILLATT_TONN = TestLimitVekt(curr_bk, curr_bru),
            !.BEGRENSNING_KILDE = BakKilde(curr_bk, curr_bru) ]

Bak_Opprett ==
    /\ script = "bak" /\ pc = "start"
    /\ Veg_TillatProfil' = CopyVegnett(Vegnett)
    /\ cur' = 1
    /\ pc' = IF Len(Vegnett) = 0 THEN "done" ELSE "rows"
    /\ UNCHANGED <<script, Vegnett, Bruksklasse, Bruer, Hoydebegrensning, stats,
                   Veg_TillatSegmentert, Veg_TillatKorridor, Flaskehalser, Aarsak>>
    /\ UNCHANGED <<kjorVars, nvdbVars, Vegnett_MedOmkjoringStatus>>

\* max(v0, b_start) / min(v1, b_slutt) raise TypeError when an operand is
\* None: the segment's positions or those of a BK or bridge record of its link
BakFeiler(seg, bk, bru) ==
    \E r \in Range(load_data(bk, seg.vid)) \cup Range(load_data(bru, seg.vid)) :
        seg.s0 = None \/ seg.s1 = None \/ r.s0 = None \/ r.s1 = None

\* one iteration of the UpdateCursor loop; an exception ends the run
Bak_OppdaterRad ==
    /\ script = "bak" /\ pc = "rows" /\ cur <= Len(Veg_TillatProfil)
    /\ IF BakFeiler(Veg_TillatProfil[cur], Bruksklasse, Bruer)
       THEN /\ utfall' = "TypeError"
            /\ pc' = "avbrutt"
            /\ UNCHANGED <<Veg_TillatProfil, cur>>
       ELSE /\ Veg_TillatProfil' =
                  [ Veg_TillatProfil EXCEPT
                      ![cur] = BakRow(Veg_TillatProfil[cur], Bruksklasse, Bruer,
                                      Hoydebegrensning) ]
            /\ cur' = cur + 1
            /\ pc' = IF cur = Len(Veg_TillatProfil) THEN "done" ELSE "rows"
            /\ UNCHANGED utfall
    /\ UNCHANGED <<script, Vegnett, Bruksklasse, Bruer, Hoydebegrensning, stats,
                   Veg_TillatSegmentert, Veg_TillatKorridor, Flaskehalser, Aarsak>>
    /\ UNCHANGED <<kjoring, forrige, logg, katalog, nvdbVars, Vegnett_MedOmkjoringStatus>>

----------------------------------------------------------------------------
(* Tømmertransport/02_bygg_tillat_profil.py and 02_bygg_tillat_profil_v5.py *)

\* KJORETOY: the vehicle profile of the script
KJORETOY == [TONN |-> 600, LENGDE |-> 240, HOYDE |-> 42]

\* config.KJORETOY_TOMMER
KJORETOY_TOMMER == [TONN |-> 600, LENGDE |-> 240, HOYDE |-> 42]

\* math.inf
Inf == 1000000

\* Stats()
NyStats == [veg_tonn |-> None, bru_tonn |-> None, maks_len |-> None, min_hoy |-> None]

\* min_update(cur, val)
min_update(c, val) ==
    IF val = None THEN c
    ELSE IF c = None THEN val ELSE Min2(c, val)

\* the body of "for vid, bk, ml in cur" on the Stats of the record's link
StatsEtterBk(s, r) ==
    [ s EXCEPT !.veg_tonn = min_update(s.veg_tonn, r.bk),
               !.maks_len = min_update(s.maks_len, r.ml) ]

\* the body of "for vid, bt in cur"
StatsEtterBru(s, r) == [ s EXCEPT !.bru_tonn = min_update(s.bru_tonn, r.tonn) ]

\* the body of "for vid, h in cur"
StatsEtterHoy(s, r) == [ s EXCEPT !.min_hoy = min_update(s.min_hoy, r.h) ]

RECURSIVE LesBk(_, _, _, _)
LesBk(tab, i, vid, s) ==
    IF i > Len(tab) THEN s
    ELSE LesBk(tab, i + 1, vid, IF tab[i].vid = vid THEN StatsEtterBk(s, tab[i]) ELSE s)

RECURSIVE LesBru(_, _, _, _)
LesBru(tab, i, vid, s) ==
    IF i > Len(tab) THEN s
    ELSE LesBru(tab, i + 1, vid, IF tab[i].vid = vid THEN StatsEtterBru(s, tab[i]) ELSE s)

RECURSIVE LesHoy(_, _, _, _)
LesHoy(tab, i, vid, s) ==
    IF i > Len(tab) THEN s
    ELSE LesHoy(tab, i + 1, vid, IF tab[i].vid = vid THEN StatsEtterHoy(s, tab[i]) ELSE s)

\* collect_stats(): one Stats per VEGLENKESEKV_ID that any record names,
\* filled from Bruksklasse, then Bruer, then the height table
collect_stats(bk, bru, hoy) ==
    LET vids == { bk[i].vid : i \in 1..Len(bk) } \cup { bru[i].vid : i \in 1..Len(bru) }
                  \cup { hoy[i].vid : i \in 1..Len(hoy) }
    IN  [ vid \in vids |->
            LesHoy(hoy, 1, vid, LesBru(bru, 1, vid, LesBk(bk, 1, vid, NyStats))) ]

\* min(margins.items(), key=lambda kv: kv[1])[0]: the first key, in the
\* order the dict literal lists them, whose margin is the smallest
FirstMinKey(margins) ==
    LET i == CHOOSE k \in 1..Len(margins) :
                 /\ \A j \in 1..Len(margins) : margins[k][2] <= margins[j][2]
                 /\ \A j \in 1..(k - 1) : margins[j][2] > margins[k][2]
    IN  margins[i][1]

\* the margins dict of build_profile
Margins(s, krav) ==
    << <<"VEG",    IF s.veg_tonn # None THEN s.veg_tonn - krav.TONN   ELSE Inf>>,
       <<"BRU",    IF s.bru_tonn # None THEN s.bru_tonn - krav.TONN   ELSE Inf>>,
       <<"LENGDE", IF s.maks_len # None THEN s.maks_len - krav.LENGDE ELSE Inf>>,
       <<"HOYDE",  IF s.min_hoy  # None THEN s.min_hoy  - krav.HOYDE  ELSE Inf>> >>

\* "JA" if flag else "NEI"
JaNei(b) == IF b THEN "JA" ELSE "NEI"

\* Tømmertransport/02: DIM_KILDE of a row
TommerDimKilde(s) == FirstMinKey(Margins(s, KJORETOY))

\* 02_bygg_tillat_profil_v5: DIM_KILDE of a row
V5DimKilde(s, krav) == FirstMinKey(Margins(s, krav))

\* the body of the UpdateCursor loop for a row whose link has a Stats
ProfilRow(row, s, krav, dim) ==
    [ row EXCEPT
        !.TILLATT_TONN = s.veg_tonn, !.MAKS_LENGDE = s.maks_len, !.MIN_HOYDE = s.min_hoy,
        !.FLASKEHALS_VEG    = JaNei(s.veg_tonn # None /\ s.veg_tonn < krav.TONN),
        !.FLASKEHALS_BRU    = JaNei(s.bru_tonn # None /\ s.bru_tonn < krav.TONN),
        !.FLASKEHALS_LENGDE = JaNei(s.maks_len # None /\ s.maks_len < krav.LENGDE),
        !.FLASKEHALS_HOYDE  = JaNei(s.min_hoy # None /\ s.min_hoy < krav.HOYDE),
        !.DIM_KILDE = dim ]

\* Tømmertransport/02 build_profile: one row
TommerRow(row, st) ==
    IF row.vid \notin DOMAIN st THEN row
    ELSE ProfilRow(row, st[row.vid], KJORETOY, TommerDimKilde(st[row.vid]))

\* v5 build_profile: one row
V5Row(row, st, krav) ==
    IF row.vid \notin DOMAIN st THEN row
    ELSE ProfilRow(row, st[row.vid], krav, V5DimKilde(st[row.vid], krav))

\* get(int(vid)) in collect_stats raises TypeError on a record without
\* VEGLENKESEKV_ID
StatsFeiler(bk, bru, hoy) ==
    \E r \in Range(bk) \cup Range(bru) \cup Range(hoy) : r.vid = None

\* collect_stats(), Delete, CopyFeatures, ensure_field; an exception in
\* collect_stats ends the run before OUT_FC is touched
Tommer_Opprett ==
    /\ script = "tommer" /\ pc = "start"
    /\ IF StatsFeiler(Bruksklasse, Bruer, Hoydebegrensning)
       THEN /\ utfall' = "TypeError"
            /\ pc' = "avbrutt"
            /\ UNCHANGED <<stats, Veg_TillatProfil, cur>>
       ELSE /\ stats' = collect_stats(Bruksklasse, Bruer, Hoydebegrensning)
            /\ Veg_TillatProfil' = CopyVegnett(Vegnett)
            /\ cur' = 1
            /\ pc' = IF Len(Vegnett) = 0 THEN "done" ELSE "rows"
            /\ UNCHANGED utfall
    /\ UNCHANGED <<script, Vegnett, Bruksklasse, Bruer, Hoydebegrensning,
                   Veg_TillatSegmentert, Veg_TillatKorridor, Flaskehalser, Aarsak>>
    /\ UNCHANGED <<kjoring, forrige, logg, katalog, nvdbVars, Vegnett_MedOmkjoringStatus>>

\* one iteration of the UpdateCursor loop; int(row[0]) raises TypeError on a
\* row without VEGLENKESEKV_ID
Tommer_OppdaterRad ==
    /\ script = "tommer" /\ pc = "rows" /\ cur <= Len(Veg_TillatProfil)
    /\ IF Veg_TillatProfil[cur].vid = None
       THEN /\ utfall' = "TypeError"
            /\ pc' = "avbrutt"
            /\ UNCHANGED <<Veg_TillatProfil, cur>>
       ELSE /\ Veg_TillatProfil' =
                  [ Veg_TillatProfil EXCEPT ![cur] = TommerRow(Veg_TillatProfil[cur], stats) ]
            /\ cur' = cur + 1
            /\ pc' = IF cur = Len(Veg_TillatProfil) THEN "done" ELSE "rows"
            /\ UNCHANGED utfall
    /\ UNCHANGED <<script, Vegnett, Bruksklasse, Bruer, Hoydebegrensning, stats,
                   Veg_TillatSegmentert, Veg_TillatKorridor, Flaskehalser, Aarsak>>
    /\ UNCHANGED <<kjoring, forrige, logg, katalog, nvdbVars, Vegnett_MedOmkjoringStatus>>

V5_Opprett ==
    /\ script = "v5" /\ pc = "start"
    /\ IF StatsFeiler(Bruksklasse, Bruer, Hoydebegrensning)
       THEN /\ utfall' = "TypeError"
            /\ pc' = "avbrutt"
            /\ UNCHANGED <<stats, Veg_TillatProfil, cur>>
       ELSE /\ stats' = collect_stats(Bruksklasse, Bruer, Hoydebegrensning)
            /\ Veg_TillatProfil' = CopyVegnett(Vegnett)
            /\ cur' = 1
            /\ pc' = IF Len(Vegnett) = 0 THEN "done" ELSE "rows"
            /\ UNCHANGED utfall
    /\ UNCHANGED <<script, Vegnett, Bruksklasse, Bruer, Hoydebegrensning,
                   Veg_TillatSegmentert, Veg_TillatKorridor, Flaskehalser, Aarsak>>
    /\ UNCHANGED <<kjoring, forrige, logg, katalog, nvdbVars, Vegnett_MedOmkjoringStatus>>

V5_OppdaterRad ==
    /\ script = "v5" /\ pc = "rows" /\ cur <= Len(Veg_TillatProfil)
    /\ IF Veg_TillatProfil[cur].vid = None
       THEN /\ utfall' = "TypeError"
            /\ pc' = "avbrutt"
            /\ UNCHANGED <<Veg_TillatProfil, cur>>
       ELSE /\ Veg_TillatProfil' =
                  [ Veg_TillatProfil EXCEPT
                      ![cur] = V5Row(Veg_TillatProfil[cur], stats, KJORETOY_TOMMER) ]
            /\ cur' = cur + 1
            /\ pc' = IF cur = Len(Veg_TillatProfil) THEN "done" ELSE "rows"
            /\ UNCHANGED utfall
    /\ UNCHANGED <<script, Vegnett, Bruksklasse, Bruer, Hoydebegrensning, stats,
                   Veg_TillatSegmentert, Veg_TillatKorridor, Flaskehalser, Aarsak>>
    /\ UNCHANGED <<kjoring, forrige, logg, katalog, nvdbVars, Vegnett_MedOmkjoringStatus>>

----------------------------------------------------------------------------
(* Stage 02 on bounded inputs *)

\* Every script derives a row from its own segment and the restriction tables
\* alone, so stage 02 is run on one segment at a time here; SpecKorridor
\* below runs it on several segments of a link.
InitProfil ==
    /\ script \in {"v904", "test", "bak", "tommer", "v5"}
    /\ pc = "start"
    /\ cur = 1
    /\ Vegnett \in { <<VegUniverse[i]>> : i \in 1..Len(VegUniverse) }
    /\ Bruksklasse \in SeqsUpTo(BKUniverse, MaxRec)
    /\ Bruer \in SeqsUpTo(BruUniverse, MaxRec)
    /\ Hoydebegrensning \in SeqsUpTo(HoyUniverse, MaxRec)
    /\ Veg_TillatProfil = << >>
    /\ stats = << >>
    /\ Veg_TillatSegmentert = << >>
    /\ Veg_TillatKorridor = << >>
    /\ Flaskehalser = << >>
    /\ Aarsak = << >>
    /\ ForsteKjoring
    /\ Vegnett_MedOmkjoringStatus = << >>
    /\ NvdbHvile

NextProfil ==
    \/ V904_Opprett
    \/ V904_FyllRad
    \/ Test_Opprett
    \/ Test_OppdaterRad
    \/ Bak_Opprett
    \/ Bak_OppdaterRad
    \/ Tommer_Opprett
    \/ Tommer_OppdaterRad
    \/ V5_Opprett
    \/ V5_OppdaterRad

SpecProfil == InitProfil /\ [][NextProfil]_vars

----------------------------------------------------------------------------
(* Properties of stage 02 *)

\* the rows of Veg_TillatProfil the running stage-02 script has written
Behandlet == IF pc = "start" THEN {} ELSE 1..(cur - 1)

\* the overlap predicate of the data model, strict and inclusive, and the
\* link-only match of the scripts that do not look at positions
StriktOverlapp(S, R) == R.vid = S.vid /\ Max2(S.s0, R.s0) < Min2(S.s1, R.s1)

InklusivOverlapp(S, R) == R.vid = S.vid /\ Max2(S.s0, R.s0) <= Min2(S.s1, R.s1)

SammeLenke(S, R) == R.vid = S.vid

\* the predicate script sc applies to restriction type t ("bk", "bru", "hoy")
Treffer(sc, t, S, R) ==
    CASE sc = "v904" -> IF t = "bru" THEN StriktOverlapp(S, R) ELSE InklusivOverlapp(S, R)
      [] sc \in {"test", "bak"} -> IF t = "hoy" THEN SammeLenke(S, R) ELSE StriktOverlapp(S, R)
      [] OTHER -> SammeLenke(S, R)

\* the row script sc writes for segment S on the given tables
RadAv(sc, S, bk, bru, hoy) ==
    CASE sc = "v904"   -> V904Row(S, bk, bru, hoy)
      [] sc = "test"   -> TestRow(S, bk, bru, hoy)
      [] sc = "bak"    -> BakRow(S, bk, bru, hoy)
      [] sc = "tommer" -> TommerRow(NullRow(S), collect_stats(bk, bru, hoy))
      [] sc = "v5"     -> V5Row(NullRow(S), collect_stats(bk, bru, hoy), KJORETOY_TOMMER)

\* the bridge minimum of the link of S that tommer / v5 hold in their Stats
BruStat(sc, S, bk, bru, hoy) ==
    IF sc \in {"tommer", "v5"} /\ S.vid \in DOMAIN collect_stats(bk, bru, hoy)
    THEN collect_stats(bk, bru, hoy)[S.vid].bru_tonn
    ELSE None

\* every minimum derived for S: road weight, length, bridge weight, height,
\* combined weight, and the bridge minimum kept in Stats
Minima(sc, S, bk, bru, hoy) ==
    LET r == RadAv(sc, S, bk, bru, hoy)
    IN  << r.BK_VERDI, r.MAKS_LENGDE, r.MIN_BRU_TONN, r.MIN_HOYDE, r.TILLATT_TONN,
           BruStat(sc, S, bk, bru, hoy) >>

\* the minima the run has written for row i
SkrevneMinima(i) ==
    LET r == Veg_TillatProfil[i]
    IN  << r.BK_VERDI, r.MAKS_LENGDE, r.MIN_BRU_TONN, r.MIN_HOYDE, r.TILLATT_TONN,
           IF script \in {"tommer", "v5"} /\ r.vid \in DOMAIN stats
           THEN stats[r.vid].bru_tonn ELSE None >>

\* C1: a restriction record that does not overlap a segment under the
\* predicate the script applies to its type does not influence any minimum
\* derived for the segment: the written minima equal those derived with the
\* record removed from its table.
C1_IkkeOverlappUtenInnflytelse ==
    \A i \in Behandlet :
        LET S == Vegnett[i] IN
        /\ \A k \in 1..Len(Bruksklasse) :
              ~Treffer(script, "bk", S, Bruksklasse[k]) =>
                  SkrevneMinima(i) =
                      Minima(script, S, RemoveAt(Bruksklasse, k), Bruer, Hoydebegrensning)
        /\ \A k \in 1..Len(Bruer) :
              ~Treffer(script, "bru", S, Bruer[k]) =>
                  SkrevneMinima(i) =
                      Minima(script, S, Bruksklasse, RemoveAt(Bruer, k), Hoydebegrensning)
        /\ \A k \in 1..Len(Hoydebegrensning) :
              ~Treffer(script, "hoy", S, Hoydebegrensning[k]) =>
                  SkrevneMinima(i) =
                      Minima(script, S, Bruksklasse, Bruer, RemoveAt(Hoydebegrensning, k))

\* C1 witness: a written row whose link carries a bridge that misses the
\* segment and a bridge that hits it
C1_Witness ==
    \E i \in Behandlet : \E k, m \in 1..Len(Bruer) :
        /\ Bruer[k].vid = Vegnett[i].vid
        /\ ~Treffer(script, "bru", Vegnett[i], Bruer[k])
        /\ Treffer(script, "bru", Vegnett[i], Bruer[m])
        /\ Veg_TillatProfil[i].MIN_BRU_TONN = Bruer[m].tonn

\* a <= b where None is "no limit"
LavereEllerLik(a, b) == b = None \/ (a # None /\ a <= b)

\* values of a hypothetical additional record
TilleggsVerdier == {None, 350, 450, Sentinel999 + 10}

\* every component of etter is lower than or equal to that of for
AlleLavere(etter, for) == \A d \in 1..Len(for) : LavereEllerLik(etter[d], for[d])

\* C2: one more overlapping record, of any value and read at any place in
\* the table, never raises a derived minimum of the segment.
C2_Monoton ==
    \A i \in Behandlet :
        \A S \in {Vegnett[i]}, for \in {SkrevneMinima(i)} :
        /\ \A R \in { [u EXCEPT !.bk = v, !.ml = v] : u \in BKUniverse, v \in TilleggsVerdier } :
              Treffer(script, "bk", S, R) =>
                  \A k \in 0..Len(Bruksklasse) :
                  \A etter \in {Minima(script, S, InsertAt(Bruksklasse, k, R), Bruer,
                                       Hoydebegrensning)} :
                      AlleLavere(etter, for)
        /\ \A R \in { [u EXCEPT !.tonn = v] : u \in BruUniverse, v \in TilleggsVerdier } :
              Treffer(script, "bru", S, R) =>
                  \A k \in 0..Len(Bruer) :
                  \A etter \in {Minima(script, S, Bruksklasse, InsertAt(Bruer, k, R),
                                       Hoydebegrensning)} :
                      AlleLavere(etter, for)
        /\ \A R \in { [u EXCEPT !.h = v] : u \in HoyUniverse, v \in TilleggsVerdier } :
              Treffer(script, "hoy", S, R) =>
                  \A k \in 0..Len(Hoydebegrensning) :
                  \A etter \in {Minima(script, S, Bruksklasse, Bruer,
                                       InsertAt(Hoydebegrensning, k, R))} :
                      AlleLavere(etter, for)

\* C2 witness: two bridges hit the segment, the one read last is the lower
\* one, and the written minimum is its value
C2_Witness ==
    \E i \in Behandlet :
        /\ Len(Bruer) = 2
        /\ Treffer(script, "bru", Vegnett[i], Bruer[1])
        /\ Treffer(script, "bru", Vegnett[i], Bruer[2])
        /\ Bruer[2].tonn < Bruer[1].tonn
        /\ Veg_TillatProfil[i].MIN_BRU_TONN = Bruer[2].tonn

IngenTreff(t, S, tab) == \A k \in 1..Len(tab) : ~Treffer(script, t, S, tab[k])

Aarsakslabel(r) == IF script \in {"tommer", "v5"} THEN r.DIM_KILDE ELSE r.BEGRENSNING_KILDE

\* road and bridge weight minimum the script holds for written row i
VegMin(i) ==
    IF script \in {"tommer", "v5"}
    THEN IF Vegnett[i].vid \in DOMAIN stats THEN stats[Vegnett[i].vid].veg_tonn ELSE None
    ELSE Veg_TillatProfil[i].BK_VERDI

BruMin(i) ==
    IF script \in {"tommer", "v5"}
    THEN IF Vegnett[i].vid \in DOMAIN stats THEN stats[Vegnett[i].vid].bru_tonn ELSE None
    ELSE Veg_TillatProfil[i].MIN_BRU_TONN

\* the weight requirement of the vehicle; testversjon and bak label the cause
\* without a requirement, so every value counts as below it
VektKrav ==
    CASE script = "tommer" -> KJORETOY.TONN
      [] script = "v5"     -> KJORETOY_TOMMER.TONN
      [] OTHER             -> Inf

\* C4: when the bridge weight minimum of a segment equals its road weight
\* minimum and the value is below the vehicle's weight requirement, the cause
\* label written for the segment is the bridge label "BRU".
C4_BruVinnerVedLikhet ==
    \A i \in Behandlet :
        (/\ script \in {"tommer", "v5", "bak", "test"}
         /\ VegMin(i) # None
         /\ BruMin(i) = VegMin(i)
         /\ VegMin(i) < VektKrav)
            => Aarsakslabel(Veg_TillatProfil[i]) = "BRU"

\* the scenario of C6: segment [0, 100) on link 5, road weight 40 t on
\* [20, 60), a bridge of 35 t on [55, 58), height 4.1 m on the link
C6_Inndata(i) ==
    /\ Vegnett[i] = [vid |-> 5, s0 |-> 0, s1 |-> 100]
    /\ Bruksklasse = << [vid |-> 5, s0 |-> 20, s1 |-> 60, bk |-> 400, ml |-> 195] >>
    /\ Bruer = << [vid |-> 5, s0 |-> 55, s1 |-> 58, tonn |-> 350] >>
    /\ Hoydebegrensning = << [vid |-> 5, s0 |-> 58, s1 |-> 58, h |-> 41] >>

\* C6: in that scenario the written row has weight minimum 35 t, height
\* 4.1 m and cause "BRU".  v904 has no cause field, so only weight and height
\* are required of it.  Both weights are below 50 t and below the 60 t the
\* Tømmer scripts hard-code, so the requirement does not change the outcome.
C6_Scenario ==
    \A i \in Behandlet :
        C6_Inndata(i) =>
            /\ Veg_TillatProfil[i].TILLATT_TONN = 350
            /\ Veg_TillatProfil[i].MIN_HOYDE = 41
            /\ script # "v904" => Aarsakslabel(Veg_TillatProfil[i]) = "BRU"

\* the scripts for which the scenario of C6 comes out as stated
C6_ScenarioUtenTommer == script \in {"tommer", "v5"} \/ C6_Scenario

----------------------------------------------------------------------------
(* Stage 03: 03_segmenter_og_propager.py, and the root                     *)
(* 02_bygg_tillat_profil.py, which holds the same propagation step as       *)
(* functions (collect_stats, build_segment_output, build_corridor_output).  *)
(* Both read Veg_TillatProfil and write Veg_TillatSegmentert and            *)
(* Veg_TillatKorridor.                                                      *)

\* dims_kilde_for_segment(bk, bru); the None it returns is NullText here
dims_kilde_for_segment(bk, bru) ==
    IF bk = None /\ bru = None THEN NullText
    ELSE IF bk = None THEN "BRU"
    ELSE IF bru = None THEN "VEG"
    ELSE IF bru <= bk THEN "BRU" ELSE "VEG"

\* a fresh stats[vid] entry
NyLinkStats ==
    [ tonn |-> None, len |-> None, hoy |-> None, has_bru_dim |-> FALSE, has_any |-> FALSE ]

\* Faulty variant: the value read last replaces the one held.
SegSisteVerdi(c, val) == IF val = None THEN c ELSE val

\* s["tonn"] = tonn if s["tonn"] is None else min(s["tonn"], tonn), under
\* "if tonn is not None"
SegMinSteg(c, val) == IF val = None THEN c ELSE IF c = None THEN val ELSE Min2(c, val)

\* the body of the read loop for one Veg_TillatProfil row
LinkStatsEtter(s, row) ==
    [ tonn |-> SegMinSteg(s.tonn, row.TILLATT_TONN),
      len  |-> SegMinSteg(s.len, row.MAKS_LENGDE),
      hoy  |-> SegMinSteg(s.hoy, row.MIN_HOYDE),
      has_bru_dim |-> s.has_bru_dim
                        \/ dims_kilde_for_segment(row.BK_VERDI, row.MIN_BRU_TONN) = "BRU",
      has_any |-> TRUE ]

RECURSIVE LesProfil(_, _, _, _)
LesProfil(tab, i, vid, s) ==
    IF i > Len(tab) THEN s
    ELSE LesProfil(tab, i + 1, vid, IF tab[i].vid = vid THEN LinkStatsEtter(s, tab[i]) ELSE s)

\* the stats dict after the read loop over IN_FC
SegStats(tab) ==
    [ vid \in { tab[i].vid : i \in 1..Len(tab) } |-> LesProfil(tab, 1, vid, NyLinkStats) ]

\* Delete, CopyFeatures(IN_FC, OUT_SEG_FC) and the ensure_field calls
SegmentertKopi(tab) ==
    [ i \in 1..Len(tab) |->
        tab[i] @@ [ TONN_PROP |-> None, LEN_PROP |-> None, HOY_PROP |-> None,
                    PROPAGERT |-> NullText ] ]

\* the body of the update loop over OUT_SEG_FC
SegRad(row, st) ==
    IF row.vid \notin DOMAIN st \/ ~st[row.vid].has_any
    THEN [ row EXCEPT !.PROPAGERT = "NEI" ]
    ELSE [ row EXCEPT !.TONN_PROP = st[row.vid].tonn,
                      !.LEN_PROP  = st[row.vid].len,
                      !.HOY_PROP  = st[row.vid].hoy,
                      !.DIM_KILDE = IF st[row.vid].has_bru_dim THEN "BRU" ELSE "VEG",
                      !.PROPAGERT = "JA" ]

\* the MIN statistic of Dissolve over one field of the rows of a link: NULLs
\* are left out, and the result is NULL when every value is NULL
DissolveMin(vals) ==
    IF vals \ {None} = {} THEN None
    ELSE CHOOSE m \in vals \ {None} : \A v \in vals \ {None} : m <= v

\* the links of a table in the order of their first row
RECURSIVE Lenker(_, _, _)
Lenker(tab, i, acc) ==
    IF i > Len(tab) THEN acc
    ELSE Lenker(tab, i + 1,
                IF \E k \in 1..Len(acc) : acc[k] = tab[i].vid THEN acc
                ELSE Append(acc, tab[i].vid))

\* arcpy.management.Dissolve on VEGLENKESEKV_ID with MIN statistics, and
\* ensure_field(OUT_KORR_FC, DIM_KILDE)
Dissolve(tab) ==
    LET ids == Lenker(tab, 1, << >>)
        rows(vid) == { i \in 1..Len(tab) : tab[i].vid = vid }
    IN  [ k \in 1..Len(ids) |->
            [ vid |-> ids[k],
              MIN_TILLATT_TONN |-> DissolveMin({ tab[i].TILLATT_TONN : i \in rows(ids[k]) }),
              MIN_MAKS_LENGDE  |-> DissolveMin({ tab[i].MAKS_LENGDE : i \in rows(ids[k]) }),
              MIN_MIN_HOYDE    |-> DissolveMin({ tab[i].MIN_HOYDE : i \in rows(ids[k]) }),
              DIM_KILDE        |-> NullText ] ]

\* the body of the update loop over OUT_KORR_FC
KorrRad(row, st) ==
    [ row EXCEPT !.DIM_KILDE =
        IF row.vid \in DOMAIN st /\ st[row.vid].has_bru_dim THEN "BRU" ELSE "VEG" ]

\* 03_segmenter_og_propager.py: read loop, then OUT_SEG_FC recreated
S03_LesStats ==
    /\ script = "normal" /\ pc = "start"
    /\ stats' = SegStats(Veg_TillatProfil)
    /\ Veg_TillatSegmentert' = SegmentertKopi(Veg_TillatProfil)
    /\ cur' = 1
    /\ pc' = IF Len(Veg_TillatProfil) = 0 THEN "s03_dissolve" ELSE "s03_seg"
    /\ UNCHANGED <<script, Vegnett, Bruksklasse, Bruer, Hoydebegrensning, Veg_TillatProfil,
                   Veg_TillatKorridor, Flaskehalser, Aarsak>>
    /\ UNCHANGED <<kjorVars, nvdbVars, Vegnett_MedOmkjoringStatus>>

\* one row of the update loop over OUT_SEG_FC
S03_OppdaterSegment ==
    /\ script = "normal" /\ pc = "s03_seg"
    /\ Veg_TillatSegmentert' =
           [ Veg_TillatSegmentert EXCEPT ![cur] = SegRad(Veg_TillatSegmentert[cur], stats) ]
    /\ cur' = cur + 1
    /\ pc' = IF cur = Len(Veg_TillatSegmentert) THEN "s03_dissolve" ELSE "s03_seg"
    /\ UNCHANGED <<script, Vegnett, Bruksklasse, Bruer, Hoydebegrensning, Veg_TillatProfil,
                   stats, Veg_TillatKorridor, Flaskehalser, Aarsak>>
    /\ UNCHANGED <<kjorVars, nvdbVars, Vegnett_MedOmkjoringStatus>>

\* OUT_KORR_FC deleted and rebuilt by Dissolve
S03_Dissolve ==
    /\ script = "normal" /\ pc = "s03_dissolve"
    /\ Veg_TillatKorridor' = SlettOgBygg(Veg_TillatKorridor, Dissolve(Veg_TillatProfil))
    /\ cur' = 1
    /\ pc' = IF Len(Veg_TillatProfil) = 0 THEN "s03_done" ELSE "s03_korr"
    /\ UNCHANGED <<script, Vegnett, Bruksklasse, Bruer, Hoydebegrensning, Veg_TillatProfil,
                   stats, Veg_TillatSegmentert, Flaskehalser, Aarsak>>
    /\ UNCHANGED <<kjorVars, nvdbVars, Vegnett_MedOmkjoringStatus>>

\* one row of the update loop over OUT_KORR_FC
S03_OppdaterKorridor ==
    /\ script = "normal" /\ pc = "s03_korr"
    /\ Veg_TillatKorridor' =
           [ Veg_TillatKorridor EXCEPT ![cur] = KorrRad(Veg_TillatKorridor[cur], stats) ]
    /\ cur' = cur + 1
    /\ pc' = IF cur = Len(Veg_TillatKorridor) THEN "s03_done" ELSE "s03_korr"
    /\ UNCHANGED <<script, Vegnett, Bruksklasse, Bruer, Hoydebegrensning, Veg_TillatProfil,
                   stats, Veg_TillatSegmentert, Flaskehalser, Aarsak>>
    /\ UNCHANGED <<kjorVars, nvdbVars, Vegnett_MedOmkjoringStatus>>

\* root 02_bygg_tillat_profil.py: main() up to the update loop of
\* build_segment_output; int(row[i_vid]) in collect_stats raises TypeError on
\* a profile row without VEGLENKESEKV_ID
R02_LesStats ==
    /\ script = "rot" /\ pc = "start"
    /\ IF \E i \in 1..Len(Veg_TillatProfil) : Veg_TillatProfil[i].vid = None
       THEN /\ utfall' = "TypeError"
            /\ pc' = "avbrutt"
            /\ UNCHANGED <<stats, Veg_TillatSegmentert, cur>>
       ELSE /\ stats' = SegStats(Veg_TillatProfil)
            /\ Veg_TillatSegmentert' = SegmentertKopi(Veg_TillatProfil)
            /\ cur' = 1
            /\ pc' = IF Len(Veg_TillatProfil) = 0 THEN "s03_dissolve" ELSE "s03_seg"
            /\ UNCHANGED utfall
    /\ UNCHANGED <<script, Vegnett, Bruksklasse, Bruer, Hoydebegrensning, Veg_TillatProfil,
                   Veg_TillatKorridor, Flaskehalser, Aarsak>>
    /\ UNCHANGED <<kjoring, forrige, logg, katalog, nvdbVars, Vegnett_MedOmkjoringStatus>>

\* build_segment_output: one row of the update loop
R02_OppdaterSegment ==
    /\ script = "rot" /\ pc = "s03_seg"
    /\ Veg_TillatSegmentert' =
           [ Veg_TillatSegmentert EXCEPT ![cur] = SegRad(Veg_TillatSegmentert[cur], stats) ]
    /\ cur' = cur + 1
    /\ pc' = IF cur = Len(Veg_TillatSegmentert) THEN "s03_dissolve" ELSE "s03_seg"
    /\ UNCHANGED <<script, Vegnett, Bruksklasse, Bruer, Hoydebegrensning, Veg_TillatProfil,
                   stats, Veg_TillatKorridor, Flaskehalser, Aarsak>>
    /\ UNCHANGED <<kjorVars, nvdbVars, Vegnett_MedOmkjoringStatus>>

\* build_corridor_output: Delete and Dissolve
R02_Dissolve ==
    /\ script = "rot" /\ pc = "s03_dissolve"
    /\ Veg_TillatKorridor' = SlettOgBygg(Veg_TillatKorridor, Dissolve(Veg_TillatProfil))
    /\ cur' = 1
    /\ pc' = IF Len(Veg_TillatProfil) = 0 THEN "s03_done" ELSE "s03_korr"
    /\ UNCHANGED <<script, Vegnett, Bruksklasse, Bruer, Hoydebegrensning, Veg_TillatProfil,
                   stats, Veg_TillatSegmentert, Flaskehalser, Aarsak>>
    /\ UNCHANGED <<kjorVars, nvdbVars, Vegnett_MedOmkjoringStatus>>

\* build_corridor_output: one row of the update loop
R02_OppdaterKorridor ==
    /\ script = "rot" /\ pc = "s03_korr"
    /\ Veg_TillatKorridor' =
           [ Veg_TillatKorridor EXCEPT ![cur] = KorrRad(Veg_TillatKorridor[cur], stats) ]
    /\ cur' = cur + 1
    /\ pc' = IF cur = Len(Veg_TillatKorridor) THEN "s03_done" ELSE "s03_korr"
    /\ UNCHANGED <<script, Vegnett, Bruksklasse, Bruer, Hoydebegrensning, Veg_TillatProfil,
                   stats, Veg_TillatSegmentert, Flaskehalser, Aarsak>>
    /\ UNCHANGED <<kjorVars, nvdbVars, Vegnett_MedOmkjoringStatus>>

----------------------------------------------------------------------------
(* Stage 04: 04_flaskehalser_bk900.py (reads Veg_TillatProfil) and          *)
(* Normaltransport/04_flaskehalser_v904_50t_19_5m_4_5m.py (reads            *)
(* Veg_TillatSegmentert).  Stage 05: 05_klassifiser_aarsak-v2.py and        *)
(* Normaltransport/05_klassifiser_aarsak_v904_50t_19_5m_4_5m.py.            *)

\* requirements, in tenths of a tonne / metre
VEKT_KRAV == 500

BRU_TONN_KRAV == 600

LENGDE_KRAV_BK900 == 240

LENGDE_KRAV_V904 == 195

HOYDE_KRAV == 45

\* sep.join(tags)
RECURSIVE Join(_, _)
Join(tags, sep) ==
    IF Len(tags) = 0 THEN ""
    ELSE IF Len(tags) = 1 THEN tags[1]
    ELSE tags[1] \o sep \o Join(Tail(tags), sep)

\* the list a chain of "if c: tags.append(t)" builds
Tagger(betingelser, navn) ==
    LET F[i \in 0..Len(navn)] ==
            IF i = 0 THEN << >>
            ELSE IF betingelser[i] THEN Append(F[i - 1], navn[i]) ELSE F[i - 1]
    IN  F[Len(navn)]

Under(v, krav) == v # None /\ v < krav

\* 04_flaskehalser_bk900.py: the rows written for one Veg_TillatProfil row
F04Rad(row) ==
    LET typer == Tagger(<< Under(row.TILLATT_TONN, VEKT_KRAV),
                           Under(row.MAKS_LENGDE, LENGDE_KRAV_BK900),
                           Under(row.MIN_HOYDE, HOYDE_KRAV) >>,
                        << "Vekt", "Lengde", "Høyde" >>)
    IN  IF typer = << >> THEN << >>
        ELSE << [ vid |-> row.vid, s0 |-> row.s0, s1 |-> row.s1,
                  TILLATT_TONN |-> row.TILLATT_TONN, MAKS_LENGDE |-> row.MAKS_LENGDE,
                  FRI_HOYDE |-> row.MIN_HOYDE, FLASKEHALS |-> "JA",
                  BEGRENSNING_TYPE |-> Join(typer, " og ") ] >>

\* Normaltransport/04: the rows written for one Veg_TillatSegmentert row
N04Rad(row) ==
    LET typer == Tagger(<< Under(row.TONN_PROP, VEKT_KRAV),
                           Under(row.MIN_BRU_TONN, BRU_TONN_KRAV),
                           Under(row.LEN_PROP, LENGDE_KRAV_V904),
                           Under(row.HOY_PROP, HOYDE_KRAV) >>,
                        << "Vekt", "Bru60", "Lengde", "Høyde" >>)
    IN  IF typer = << >> THEN << >>
        ELSE << [ vid |-> row.vid, s0 |-> row.s0, s1 |-> row.s1,
                  TILLATT_TONN |-> row.TONN_PROP, MIN_BRU_TONN |-> row.MIN_BRU_TONN,
                  MAKS_LENGDE |-> row.LEN_PROP, FRI_HOYDE |-> row.HOY_PROP,
                  FLASKEHALS |-> "JA", BEGRENSNING_TYPE |-> Join(typer, " og ") ] >>

\* the insert loop over a table
RECURSIVE Flaskehalsrader(_, _, _)
Flaskehalsrader(tab, i, normal) ==
    IF i > Len(tab) THEN << >>
    ELSE (IF normal THEN N04Rad(tab[i]) ELSE F04Rad(tab[i])) \o Flaskehalsrader(tab, i + 1, normal)

\* 04_flaskehalser_bk900.py, whole run
F04_Flaskehalser ==
    /\ script = "rot" /\ pc = "s03_done"
    /\ Flaskehalser' = Flaskehalsrader(Veg_TillatProfil, 1, FALSE)
    /\ pc' = "f04_done"
    /\ UNCHANGED <<script, cur, Vegnett, Bruksklasse, Bruer, Hoydebegrensning, Veg_TillatProfil,
                   stats, Veg_TillatSegmentert, Veg_TillatKorridor, Aarsak>>
    /\ UNCHANGED <<kjorVars, nvdbVars, Vegnett_MedOmkjoringStatus>>

\* Normaltransport/04: USE_TONN is TONN_PROP, or TILLATT_TONN when IN_FC has
\* no field TONN_PROP; the rows as the SearchCursor returns them
N04Lest(kat, tab) ==
    IF "TONN_PROP" \in kat.felt.Veg_TillatSegmentert THEN tab
    ELSE [ i \in 1..Len(tab) |-> [ tab[i] EXCEPT !.TONN_PROP = tab[i].TILLATT_TONN ] ]

\* Normaltransport/04, whole run.  OUT_FC is deleted before
\* arcpy.Describe(IN_FC) reads the input; Describe of a feature class
\* that does not exist raises OSError.  OUT_FC has been created anew, empty,
\* when the field detection raises RuntimeError.
N04_Flaskehalser ==
    /\ script = "normal" /\ pc = "s03_done"
    /\ IF "Veg_TillatSegmentert" \notin katalog.fc
       THEN /\ Flaskehalser' = << >>
            /\ utfall' = "OSError"
            /\ pc' = "avbrutt"
       ELSE IF katalog.felt.Veg_TillatSegmentert \cap {"TONN_PROP", "TILLATT_TONN"} = {}
       THEN /\ Flaskehalser' = << >>
            /\ utfall' = "RuntimeError"
            /\ pc' = "avbrutt"
       ELSE /\ Flaskehalser' =
                  Flaskehalsrader(N04Lest(katalog, Veg_TillatSegmentert), 1, TRUE)
            /\ pc' = "f04_done"
            /\ UNCHANGED utfall
    /\ UNCHANGED <<script, cur, Vegnett, Bruksklasse, Bruer, Hoydebegrensning, Veg_TillatProfil,
                   stats, Veg_TillatSegmentert, Veg_TillatKorridor, Aarsak>>
    /\ UNCHANGED <<kjoring, forrige, logg, katalog, nvdbVars, Vegnett_MedOmkjoringStatus>>

\* float(x) if x is not None else d   (05-v2)
FloatEllers(x, d) == IF x # None THEN x ELSE d

\* float(x or d)   (05_v904): None and 0 both give d
FloatOr(x, d) == IF x = None \/ x = 0 THEN d ELSE x

\* overlap(a0, a1, b0, b1, strict) of the 05 scripts; EPS = 1e-9 is below
\* the resolution of the positions
overlap05(a0, a1, b0, b1, strict) ==
    IF strict THEN Max2(a0, b0) < Min2(a1, b1) ELSE Max2(a0, b0) <= Min2(a1, b1)

\* 05-v2: the (bk, bru, lng, hoy) tuples of idx[vls] that overlap the row,
\* in the order the profile was read
A2Hits(prof, vls, s0, s1) ==
    SelectSeq(prof, LAMBDA p :
        /\ p.vid = vls
        /\ overlap05(s0, s1, FloatEllers(p.s0, 0), FloatEllers(p.s1, LenkeSlutt), STRICT_OVERLAP))

\* Faulty variant: a tie is reported as the bridge alone.
A2VektTagsKunBru(veg_bk, bru_tonn) ==
    IF veg_bk = None /\ bru_tonn = None THEN << >>
    ELSE IF SeqMin(SelectSeq(<<veg_bk, bru_tonn>>, LAMBDA v : v # None)) >= VEKT_KRAV THEN << >>
    ELSE IF bru_tonn # None /\ (veg_bk = None \/ bru_tonn <= veg_bk) THEN << "BRU" >>
    ELSE << "VEG" >>

\* 05-v2: the weight tags
A2VektTags(veg_bk, bru_tonn) ==
    IF veg_bk = None /\ bru_tonn = None THEN << >>
    ELSE LET dims_val == SeqMin(SelectSeq(<<veg_bk, bru_tonn>>, LAMBDA v : v # None))
         IN  IF ~(dims_val < VEKT_KRAV) THEN << >>
             ELSE IF veg_bk # None /\ bru_tonn # None /\ veg_bk = bru_tonn
                  THEN << "BRU", "VEG" >>
             ELSE IF bru_tonn # None /\ (veg_bk = None \/ bru_tonn < veg_bk) THEN << "BRU" >>
             ELSE << "VEG" >>

\* 05-v2: the body of the update loop for one row of OUT_FC
A2Rad(row, prof) ==
    LET s0   == FloatEllers(row.s0, 0)
        s1   == FloatEllers(row.s1, LenkeSlutt)
        hits == A2Hits(prof, row.vid, s0, s1)
        veg_bk    == min_or_none([ i \in 1..Len(hits) |-> hits[i].BK_VERDI ])
        bru_tonn  == min_or_none([ i \in 1..Len(hits) |-> hits[i].MIN_BRU_TONN ])
        maks_len  == min_or_none([ i \in 1..Len(hits) |-> hits[i].MAKS_LENGDE ])
        fri_hoyde == min_or_none([ i \in 1..Len(hits) |-> hits[i].MIN_HOYDE ])
        tags == A2VektTags(veg_bk, bru_tonn)
                  \o Tagger(<< Under(maks_len, LENGDE_KRAV_BK900), Under(fri_hoyde, HOYDE_KRAV) >>,
                            << "LENGDE", "HØYDE" >>)
    IN  IF Len(hits) = 0 THEN row
        ELSE [ row EXCEPT !.s0 = s0, !.s1 = s1,
                          !.AARSAK_DETALJERT = IF tags = << >> THEN "OK" ELSE Join(tags, ", "),
                          !.VEG_BK_VERDI = veg_bk, !.BRU_TONN_VERDI = bru_tonn,
                          !.MAKS_LENGDE_VERDI = maks_len, !.FRI_HOYDE_VERDI = fri_hoyde ]

\* 05-v2: OUT_FC deleted, copied from the bottlenecks, rows without
\* TILLATT_TONN deleted, result fields added; then RuntimeError when
\* PROFIL_FC has none of the four profile fields
A2_Opprett ==
    /\ script = "rot" /\ pc = "f04_done"
    /\ Aarsak' =
         LET behold == SelectSeq(Flaskehalser, LAMBDA r : r.TILLATT_TONN # None)
         IN  [ i \in 1..Len(behold) |->
                 behold[i] @@ [ AARSAK_DETALJERT |-> NullText, VEG_BK_VERDI |-> None,
                                BRU_TONN_VERDI |-> None, MAKS_LENGDE_VERDI |-> None,
                                FRI_HOYDE_VERDI |-> None ] ]
    /\ cur' = 1
    /\ IF katalog.felt.Veg_TillatProfil = {}
       THEN /\ utfall' = "RuntimeError"
            /\ pc' = "avbrutt"
       ELSE /\ pc' = IF Len(Aarsak') = 0 THEN "a_done" ELSE "a_rows"
            /\ UNCHANGED utfall
    /\ UNCHANGED <<script, Vegnett, Bruksklasse, Bruer, Hoydebegrensning, Veg_TillatProfil,
                   stats, Veg_TillatSegmentert, Veg_TillatKorridor, Flaskehalser>>
    /\ UNCHANGED <<kjoring, forrige, logg, katalog, nvdbVars, Vegnett_MedOmkjoringStatus>>

\* 05-v2: one row of the update loop
A2_Klassifiser ==
    /\ script = "rot" /\ pc = "a_rows"
    /\ Aarsak' = [ Aarsak EXCEPT ![cur] = A2Rad(Aarsak[cur], Veg_TillatProfil) ]
    /\ cur' = cur + 1
    /\ pc' = IF cur = Len(Aarsak) THEN "a_done" ELSE "a_rows"
    /\ UNCHANGED <<script, Vegnett, Bruksklasse, Bruer, Hoydebegrensning, Veg_TillatProfil,
                   stats, Veg_TillatSegmentert, Veg_TillatKorridor, Flaskehalser>>
    /\ UNCHANGED <<kjorVars, nvdbVars, Vegnett_MedOmkjoringStatus>>

\* 05_v904: the rows of idx[vls] that overlap the row, in the order
\* PROFIL_FC was read
A904Hits(prof, vls, s0, s1) ==
    SelectSeq(prof, LAMBDA h :
        /\ h.vid = vls
        /\ overlap05(s0, s1, FloatOr(h.s0, 0), FloatOr(h.s1, LenkeSlutt), STRICT_OVERLAP))

\* 05_v904: dim_kilde, from the DIM_KILDE field when PROFIL_FC has one
\* (P_DIM), else from the BK and bridge minima
A904DimKilde(hits, P_DIM, bk_val, bru_tonn) ==
    IF P_DIM
    THEN IF \E i \in 1..Len(hits) : hits[i].DIM_KILDE = "BRU" THEN "BRU" ELSE "VEG"
    ELSE IF bk_val # None /\ bru_tonn # None
         THEN IF bru_tonn <= bk_val THEN "BRU" ELSE "VEG"
    ELSE IF bru_tonn # None THEN "BRU"
    ELSE "VEG"

\* 05_v904: the weight tags and the BRU60 tag
A904VektTags(tonn_prop, bk_val, bru_tonn, dim_kilde) ==
    LET vekt == IF ~Under(tonn_prop, VEKT_KRAV) THEN << >>
                ELSE IF bk_val # None /\ bru_tonn # None /\ bk_val = bru_tonn
                     THEN << "BRU", "VEG" >>
                ELSE IF dim_kilde = "BRU" THEN << "BRU" >>
                ELSE << "VEG" >>
    IN  IF Under(bru_tonn, BRU_TONN_KRAV) /\ ~(\E i \in 1..Len(vekt) : vekt[i] = "BRU")
        THEN Append(vekt, "BRU60")
        ELSE vekt

\* 05_v904: the body of the update loop for one row of OUT_FC; PROFIL_FC is
\* Veg_TillatSegmentert, which stage 04 of this pipeline requires as well
A904Rad(row, prof) ==
    LET s0   == FloatOr(row.s0, 0)
        s1   == FloatOr(row.s1, LenkeSlutt)
        hits == A904Hits(prof, row.vid, s0, s1)
        tonn_prop == min_or_none([ i \in 1..Len(hits) |-> hits[i].TONN_PROP ])
        bk_val    == min_or_none([ i \in 1..Len(hits) |-> hits[i].BK_VERDI ])
        bru_tonn  == min_or_none([ i \in 1..Len(hits) |-> hits[i].MIN_BRU_TONN ])
        maks_len  == min_or_none([ i \in 1..Len(hits) |-> hits[i].LEN_PROP ])
        fri_hoyde == min_or_none([ i \in 1..Len(hits) |-> hits[i].HOY_PROP ])
        dim_kilde == A904DimKilde(hits, TRUE, bk_val, bru_tonn)
        tags == A904VektTags(tonn_prop, bk_val, bru_tonn, dim_kilde)
                  \o Tagger(<< Under(maks_len, LENGDE_KRAV_V904), Under(fri_hoyde, HOYDE_KRAV) >>,
                            << "LENGDE", "HØYDE" >>)
    IN  IF Len(hits) = 0 THEN row
        ELSE [ row EXCEPT !.s0 = s0, !.s1 = s1,
                          !.AARSAK_DETALJERT = IF tags = << >> THEN "OK" ELSE Join(tags, ", "),
                          !.TONN_PROP_VERDI = tonn_prop,
                          !.VEG_BK_VERDI = bk_val, !.BRU_TONN_VERDI = bru_tonn,
                          !.MAKS_LENGDE_VERDI = maks_len, !.FRI_HOYDE_VERDI = fri_hoyde,
                          !.DIM_KILDE = dim_kilde ]

\* 05_v904: OUT_FC deleted, copied from the bottlenecks, result fields added
A904_Opprett ==
    /\ script = "normal" /\ pc = "f04_done"
    /\ Aarsak' =
         [ i \in 1..Len(Flaskehalser) |->
             Flaskehalser[i] @@ [ AARSAK_DETALJERT |-> NullText, TONN_PROP_VERDI |-> None,
                                  VEG_BK_VERDI |-> None, BRU_TONN_VERDI |-> None,
                                  MAKS_LENGDE_VERDI |-> None, FRI_HOYDE_VERDI |-> None,
                                  DIM_KILDE |-> NullText ] ]
    /\ cur' = 1
    /\ pc' = IF Len(Aarsak') = 0 THEN "a_done" ELSE "a_rows"
    /\ UNCHANGED <<script, Vegnett, Bruksklasse, Bruer, Hoydebegrensning, Veg_TillatProfil,
                   stats, Veg_TillatSegmentert, Veg_TillatKorridor, Flaskehalser>>
    /\ UNCHANGED <<kjorVars, nvdbVars, Vegnett_MedOmkjoringStatus>>

\* 05_v904: one row of the update loop
A904_Klassifiser ==
    /\ script = "normal" /\ pc = "a_rows"
    /\ Aarsak' = [ Aarsak EXCEPT ![cur] = A904Rad(Aarsak[cur], Veg_TillatSegmentert) ]
    /\ cur' = cur + 1
    /\ pc' = IF cur = Len(Aarsak) THEN "a_done" ELSE "a_rows"
    /\ UNCHANGED <<script, Vegnett, Bruksklasse, Bruer, Hoydebegrensning, Veg_TillatProfil,
                   stats, Veg_TillatSegmentert, Veg_TillatKorridor, Flaskehalser>>
    /\ UNCHANGED <<kjorVars, nvdbVars, Vegnett_MedOmkjoringStatus>>

----------------------------------------------------------------------------
(* The pipeline after stage 02.  Veg_TillatProfil is what                   *)
(* Normaltransport/02 or testversjon leaves: per row a BK value, a bridge   *)
(* minimum, length and height, any of them NULL, and TILLATT_TONN the       *)
(* smaller of the two weights.                                              *)

MaxProf == 2

\* (BK_VERDI, MIN_BRU_TONN) of a profile row
ProfilVekter == { <<400, 400>>, <<500, 500>>, <<400, None>>, <<None, 350>> }

\* (MAKS_LENGDE, MIN_HOYDE) of a profile row
ProfilLenHoy == { <<195, None>>, <<None, 41>> }

ProfilUniverse ==
    { [ NullRow([vid |-> sp[1], s0 |-> sp[2], s1 |-> sp[3]]) EXCEPT
          !.BK_VERDI = w[1], !.MIN_BRU_TONN = w[2],
          !.MAKS_LENGDE = lh[1], !.MIN_HOYDE = lh[2],
          !.TILLATT_TONN = V904Tillatt(w[1], w[2]) ] :
        sp \in { <<5, 0, 50>>, <<5, 50, 100>>, <<6, 0, 100>> },
        w \in ProfilVekter, lh \in ProfilLenHoy }

InitKjede ==
    /\ script \in {"normal", "rot"}
    /\ pc = "start"
    /\ cur = 1
    /\ Vegnett = << >>
    /\ Bruksklasse = << >>
    /\ Bruer = << >>
    /\ Hoydebegrensning = << >>
    /\ Veg_TillatProfil \in SeqsUpTo(ProfilUniverse, MaxProf)
    /\ stats = << >>
    /\ Veg_TillatSegmentert = << >>
    /\ Veg_TillatKorridor = << >>
    /\ Flaskehalser = << >>
    /\ Aarsak = << >>
    /\ ForsteKjoring
    /\ Vegnett_MedOmkjoringStatus = << >>
    /\ NvdbHvile

NextKjede ==
    \/ S03_LesStats
    \/ S03_OppdaterSegment
    \/ S03_Dissolve
    \/ S03_OppdaterKorridor
    \/ R02_LesStats
    \/ R02_OppdaterSegment
    \/ R02_Dissolve
    \/ R02_OppdaterKorridor
    \/ F04_Flaskehalser
    \/ N04_Flaskehalser
    \/ A2_Opprett
    \/ A2_Klassifiser
    \/ A904_Opprett
    \/ A904_Klassifiser

SpecKjede == InitKjede /\ [][NextKjede]_vars

----------------------------------------------------------------------------
(* Properties of stages 03 to 05 *)

\* the rows of Veg_TillatSegmentert the update loop of stage 03 has written
SegOppdatert ==
    IF pc = "start" THEN {}
    ELSE IF pc = "s03_seg" THEN 1..(cur - 1)
    ELSE 1..Len(Veg_TillatSegmentert)

\* the smallest value of a set, None when the set holds no value
GruppeMin(vals) ==
    IF vals \ {None} = {} THEN None
    ELSE CHOOSE m \in vals \ {None} : \A v \in vals \ {None} : m <= v

\* the Veg_TillatProfil rows of a link
ProfilRaderAv(vid) == { j \in 1..Len(Veg_TillatProfil) : Veg_TillatProfil[j].vid = vid }

\* C10: every written row of Veg_TillatSegmentert carries in TONN_PROP,
\* LEN_PROP and HOY_PROP the minimum of TILLATT_TONN, MAKS_LENGDE and MIN_HOYDE
\* over all Veg_TillatProfil rows with its VEGLENKESEKV_ID, and any two written
\* rows with the same VEGLENKESEKV_ID carry equal propagated values.
C10_PropagertErGruppeMin ==
    /\ \A i \in SegOppdatert :
        LET r == Veg_TillatSegmentert[i]
            g == ProfilRaderAv(r.vid)
        IN  /\ r.TONN_PROP = GruppeMin({ Veg_TillatProfil[j].TILLATT_TONN : j \in g })
            /\ r.LEN_PROP  = GruppeMin({ Veg_TillatProfil[j].MAKS_LENGDE : j \in g })
            /\ r.HOY_PROP  = GruppeMin({ Veg_TillatProfil[j].MIN_HOYDE : j \in g })
    /\ \A i, k \in SegOppdatert :
        Veg_TillatSegmentert[i].vid = Veg_TillatSegmentert[k].vid =>
            /\ Veg_TillatSegmentert[i].TONN_PROP = Veg_TillatSegmentert[k].TONN_PROP
            /\ Veg_TillatSegmentert[i].LEN_PROP = Veg_TillatSegmentert[k].LEN_PROP
            /\ Veg_TillatSegmentert[i].HOY_PROP = Veg_TillatSegmentert[k].HOY_PROP

\* C10 witness: a written row whose propagated weight is lower than its own
\* TILLATT_TONN, taken from another row of the link
C10_Witness ==
    \E i \in SegOppdatert :
        /\ Veg_TillatSegmentert[i].TILLATT_TONN # None
        /\ Veg_TillatSegmentert[i].TONN_PROP # None
        /\ Veg_TillatSegmentert[i].TONN_PROP < Veg_TillatSegmentert[i].TILLATT_TONN

\* the rows of the cause table the update loop of stage 05 has passed
Klassifisert ==
    IF pc = "a_rows" THEN 1..(cur - 1)
    ELSE IF pc = "a_done" THEN 1..Len(Aarsak)
    ELSE {}

\* cause texts that report both the bridge and the road
BruVegTekster ==
    { "BRU, VEG", "BRU, VEG, LENGDE", "BRU, VEG, HØYDE", "BRU, VEG, LENGDE, HØYDE" }

\* the minimum road weight and bridge weight found for a row are equal
LikeVekter(r) == r.VEG_BK_VERDI # None /\ r.VEG_BK_VERDI = r.BRU_TONN_VERDI

\* the weight stage 05 compares with VEKT_KRAV: in 05-v2 the smaller of the
\* two minima, in 05_v904 the minimum TONN_PROP of the overlapping rows
TestetVekt(r) ==
    IF script = "normal" THEN r.TONN_PROP_VERDI
    ELSE GruppeMin({ r.VEG_BK_VERDI, r.BRU_TONN_VERDI })

----------------------------------------------------------------------------
(* Tømmertransport/03_korridor_dim_kilde.py: Veg_TillatSegmentert is a copy *)
(* of Veg_TillatProfil; Veg_TillatKorridor is a Dissolve per link with      *)
(* flags and DIM_KILDE from CorrStats.                                      *)

\* CorrStats()
NyCorrStats ==
    [ veg_tonn |-> None, bru_tonn |-> None, maks_len |-> None, min_hoy |-> None,
      fh_veg |-> FALSE, fh_bru |-> FALSE, fh_len |-> FALSE, fh_hoy |-> FALSE ]

\* the body of the read loop of collect_corridor_stats for one row; bru_tonn
\* is not assigned
CorrStatsEtter(s, row) ==
    [ s EXCEPT !.veg_tonn = min_update(s.veg_tonn, row.TILLATT_TONN),
               !.maks_len = min_update(s.maks_len, row.MAKS_LENGDE),
               !.min_hoy  = min_update(s.min_hoy, row.MIN_HOYDE),
               !.fh_veg = s.fh_veg \/ row.FLASKEHALS_VEG = "JA",
               !.fh_bru = s.fh_bru \/ row.FLASKEHALS_BRU = "JA",
               !.fh_len = s.fh_len \/ row.FLASKEHALS_LENGDE = "JA",
               !.fh_hoy = s.fh_hoy \/ row.FLASKEHALS_HOYDE = "JA" ]

RECURSIVE LesKorridor(_, _, _, _)
LesKorridor(tab, i, vid, s) ==
    IF i > Len(tab) THEN s
    ELSE LesKorridor(tab, i + 1, vid, IF tab[i].vid = vid THEN CorrStatsEtter(s, tab[i]) ELSE s)

\* collect_corridor_stats(in_fc)
collect_corridor_stats(tab) ==
    [ vid \in { tab[i].vid : i \in 1..Len(tab) } |-> LesKorridor(tab, 1, vid, NyCorrStats) ]

\* Dissolve on VEGLENKESEKV_ID without statistics, and the ensure_field calls
DissolveUtenStatistikk(tab) ==
    LET ids == Lenker(tab, 1, << >>)
    IN  [ k \in 1..Len(ids) |->
            [ vid |-> ids[k], FLASKEHALS_VEG |-> NullText, FLASKEHALS_BRU |-> NullText,
              FLASKEHALS_LENGDE |-> NullText, FLASKEHALS_HOYDE |-> NullText,
              DIM_KILDE |-> NullText ] ]

\* the body of the update loop over out_korr_fc
T03KorrRad(row, st, krav) ==
    IF row.vid \notin DOMAIN st THEN row
    ELSE LET s == st[row.vid]
         IN  [ row EXCEPT !.FLASKEHALS_VEG    = JaNei(s.fh_veg),
                          !.FLASKEHALS_BRU    = JaNei(s.fh_bru),
                          !.FLASKEHALS_LENGDE = JaNei(s.fh_len),
                          !.FLASKEHALS_HOYDE  = JaNei(s.fh_hoy),
                          !.DIM_KILDE = FirstMinKey(Margins(s, krav)) ]

\* build_segment_and_corridor up to the update loop: Segmentert copied,
\* stats collected, Korridor dissolved
T03_Opprett ==
    /\ script = "tommer" /\ pc = "done"
    /\ Veg_TillatSegmentert' = Veg_TillatProfil
    /\ stats' = collect_corridor_stats(Veg_TillatProfil)
    /\ Veg_TillatKorridor' =
           SlettOgBygg(Veg_TillatKorridor, DissolveUtenStatistikk(Veg_TillatProfil))
    /\ cur' = 1
    /\ pc' = IF Len(Veg_TillatProfil) = 0 THEN "t03_done" ELSE "t03_korr"
    /\ UNCHANGED <<script, Vegnett, Bruksklasse, Bruer, Hoydebegrensning, Veg_TillatProfil,
                   Flaskehalser, Aarsak>>
    /\ UNCHANGED <<kjorVars, nvdbVars, Vegnett_MedOmkjoringStatus>>

\* one row of the update loop over out_korr_fc
T03_OppdaterKorridor ==
    /\ script = "tommer" /\ pc = "t03_korr"
    /\ Veg_TillatKorridor' =
           [ Veg_TillatKorridor EXCEPT
               ![cur] = T03KorrRad(Veg_TillatKorridor[cur], stats, KJORETOY_TOMMER) ]
    /\ cur' = cur + 1
    /\ pc' = IF cur = Len(Veg_TillatKorridor) THEN "t03_done" ELSE "t03_korr"
    /\ UNCHANGED <<script, Vegnett, Bruksklasse, Bruer, Hoydebegrensning, Veg_TillatProfil,
                   stats, Veg_TillatSegmentert, Flaskehalser, Aarsak>>
    /\ UNCHANGED <<kjorVars, nvdbVars, Vegnett_MedOmkjoringStatus>>

----------------------------------------------------------------------------
(* Stage 02 on several segments of a link, followed for Tømmertransport by  *)
(* its stage 03.                                                            *)

InitKorridor ==
    /\ script \in {"test", "tommer"}
    /\ pc = "start"
    /\ cur = 1
    /\ Vegnett \in VegTables
    /\ Bruksklasse \in SeqsUpTo(BKUniverse, MaxRec)
    /\ Bruer \in SeqsUpTo(BruUniverse, MaxRec)
    /\ Hoydebegrensning \in SeqsUpTo(HoyUniverse, MaxRec)
    /\ Veg_TillatProfil = << >>
    /\ stats = << >>
    /\ Veg_TillatSegmentert = << >>
    /\ Veg_TillatKorridor = << >>
    /\ Flaskehalser = << >>
    /\ Aarsak = << >>
    /\ ForsteKjoring
    /\ Vegnett_MedOmkjoringStatus = << >>
    /\ NvdbHvile

NextKorridor ==
    \/ Test_Opprett
    \/ Test_OppdaterRad
    \/ Tommer_Opprett
    \/ Tommer_OppdaterRad
    \/ T03_Opprett
    \/ T03_OppdaterKorridor

SpecKorridor == InitKorridor /\ [][NextKorridor]_vars

----------------------------------------------------------------------------
(* Properties of the corridor cause *)

\* the bridge is dimensioning on a profile row: bridge value less than or
\* equal to the road value, or only a bridge value present
BruDimensjonerende(r) ==
    r.MIN_BRU_TONN # None /\ (r.BK_VERDI = None \/ r.MIN_BRU_TONN <= r.BK_VERDI)

\* C9: a corridor, all rows sharing one VEGLENKESEKV_ID, gets DIM_KILDE "BRU"
\* if and only if the bridge is dimensioning on at least one of its segments.
\* testversjon writes the corridor's DIM_KILDE on every row of the link.
C9_KorridorBruHvissSegmentBru ==
    (script = "test" /\ pc = "done") =>
        \A i \in 1..Len(Veg_TillatProfil) :
            (Veg_TillatProfil[i].DIM_KILDE = "BRU")
                <=> \E j \in 1..Len(Veg_TillatProfil) :
                        /\ Veg_TillatProfil[j].vid = Veg_TillatProfil[i].vid
                        /\ BruDimensjonerende(Veg_TillatProfil[j])

\* the categories with a value in the input data of a link, with their
\* margins: minimum value minus the requirement
Marginer(vid) ==
    LET bk  == { Bruksklasse[k].bk : k \in { k \in 1..Len(Bruksklasse) : Bruksklasse[k].vid = vid } }
        ml  == { Bruksklasse[k].ml : k \in { k \in 1..Len(Bruksklasse) : Bruksklasse[k].vid = vid } }
        bru == { Bruer[k].tonn : k \in { k \in 1..Len(Bruer) : Bruer[k].vid = vid } }
        h   == { Hoydebegrensning[k].h :
                   k \in { k \in 1..Len(Hoydebegrensning) : Hoydebegrensning[k].vid = vid } }
    IN  { m \in { <<"VEG", GruppeMin(bk), KJORETOY.TONN>>,
                  <<"BRU", GruppeMin(bru), KJORETOY.TONN>>,
                  <<"LENGDE", GruppeMin(ml), KJORETOY.LENGDE>>,
                  <<"HOYDE", GruppeMin(h), KJORETOY.HOYDE>> } : m[2] # None }

\* the categories of smallest margin on a link
MinsteMargin(vid) ==
    { m[1] : m \in { m \in Marginer(vid) :
                       \A n \in Marginer(vid) : m[2] - m[3] <= n[2] - n[3] } }

\* C8: on segment rows and on corridor rows alike, DIM_KILDE names a category
\* whose margin is the smallest among the categories the input data holds a
\* value for (Tømmertransport/02 and /03).
C8_DimKildeMinsteMargin ==
    script = "tommer" =>
        /\ \A i \in Behandlet :
              Marginer(Veg_TillatProfil[i].vid) # {} =>
                  Veg_TillatProfil[i].DIM_KILDE \in MinsteMargin(Veg_TillatProfil[i].vid)
        /\ pc \in {"t03_korr", "t03_done"} =>
              \A k \in 1..Len(Veg_TillatKorridor) :
                  (k < cur \/ pc = "t03_done") /\ Marginer(Veg_TillatKorridor[k].vid) # {} =>
                      Veg_TillatKorridor[k].DIM_KILDE \in MinsteMargin(Veg_TillatKorridor[k].vid)

\* C8 restricted to the segment rows
C8_SegmentDimKilde ==
    script = "tommer" =>
        \A i \in Behandlet :
            Marginer(Veg_TillatProfil[i].vid) # {} =>
                Veg_TillatProfil[i].DIM_KILDE \in MinsteMargin(Veg_TillatProfil[i].vid)

----------------------------------------------------------------------------
(* Stage 02 on one segment and the pipeline after stage 02, side by side *)

InitDet == InitProfil \/ InitKjede

NextDet == NextProfil \/ NextKjede

SpecDet == InitDet /\ [][NextDet]_vars

\* C5: for fixed input data the cause label written for a segment does not
\* depend on the order in which the records are read: the label stage 02
\* wrote equals the label it derives from every permutation of Bruksklasse,
\* Bruer and Hoydebegrensning, and the cause text and DIM_KILDE stage 05 wrote
\* equal those it derives from every permutation of the profile rows.
C5_UavhengigAvRekkefolge ==
    /\ script \in {"v904", "test", "bak", "tommer", "v5"} =>
          \A i \in Behandlet :
              \A bk \in PermsOf(Bruksklasse), bru \in PermsOf(Bruer),
                 hoy \in PermsOf(Hoydebegrensning) :
                  \A r \in { RadAv(script, Vegnett[i], bk, bru, hoy) } :
                      /\ r.BEGRENSNING_KILDE = Veg_TillatProfil[i].BEGRENSNING_KILDE
                      /\ r.DIM_KILDE = Veg_TillatProfil[i].DIM_KILDE
    /\ script = "rot" =>
          \A i \in Klassifisert : \A P \in PermsOf(Veg_TillatProfil) :
              A2Rad(Aarsak[i], P).AARSAK_DETALJERT = Aarsak[i].AARSAK_DETALJERT
    /\ script = "normal" =>
          \A i \in Klassifisert : \A P \in PermsOf(Veg_TillatSegmentert) :
              \A r \in { A904Rad(Aarsak[i], P) } :
                  /\ r.AARSAK_DETALJERT = Aarsak[i].AARSAK_DETALJERT
                  /\ r.DIM_KILDE = Aarsak[i].DIM_KILDE

\* C5 witness: testversjon has written "BRU" for a segment hit by two bridges
\* that are read with the heavier one first
C5_Witness ==
    /\ script = "test"
    /\ \E i \in Behandlet :
          /\ Len(Bruer) = 2
          /\ Bruer[1].tonn > Bruer[2].tonn
          /\ Treffer("test", "bru", Vegnett[i], Bruer[1])
          /\ Treffer("test", "bru", Vegnett[i], Bruer[2])
          /\ Veg_TillatProfil[i].BEGRENSNING_KILDE = "BRU"

----------------------------------------------------------------------------
(* Stage 03 run again on the Veg_TillatProfil it has already processed *)

MaxKjoring == 2

\* the script is started once more: a new process, the tables as they were
\* left.  "forrige" records what the completed run left behind.
S03_KjorIgjen ==
    /\ script \in {"normal", "rot"} /\ pc = "s03_done" /\ kjoring < MaxKjoring
    /\ kjoring' = kjoring + 1
    /\ forrige' = [korridor |-> Veg_TillatKorridor, stats |-> stats]
    /\ stats' = << >>
    /\ cur' = 1
    /\ pc' = "start"
    /\ UNCHANGED <<script, Vegnett, Bruksklasse, Bruer, Hoydebegrensning, Veg_TillatProfil,
                   Veg_TillatSegmentert, Veg_TillatKorridor, Flaskehalser, Aarsak>>
    /\ UNCHANGED <<utfall, logg, katalog, nvdbVars, Vegnett_MedOmkjoringStatus>>

\* Tømmertransport/03_korridor_dim_kilde.py started once more
T03_KjorIgjen ==
    /\ script = "tommer" /\ pc = "t03_done" /\ kjoring < MaxKjoring
    /\ kjoring' = kjoring + 1
    /\ forrige' = [korridor |-> Veg_TillatKorridor, stats |-> stats]
    /\ stats' = << >>
    /\ cur' = 1
    /\ pc' = "done"
    /\ UNCHANGED <<script, Vegnett, Bruksklasse, Bruer, Hoydebegrensning, Veg_TillatProfil,
                   Veg_TillatSegmentert, Veg_TillatKorridor, Flaskehalser, Aarsak>>
    /\ UNCHANGED <<utfall, logg, katalog, nvdbVars, Vegnett_MedOmkjoringStatus>>

InitGjenta == InitKjede \/ (InitKorridor /\ script = "tommer")

NextGjenta ==
    \/ S03_LesStats
    \/ S03_OppdaterSegment
    \/ S03_Dissolve
    \/ S03_OppdaterKorridor
    \/ S03_KjorIgjen
    \/ R02_LesStats
    \/ R02_OppdaterSegment
    \/ R02_Dissolve
    \/ R02_OppdaterKorridor
    \/ Tommer_Opprett
    \/ Tommer_OppdaterRad
    \/ T03_Opprett
    \/ T03_OppdaterKorridor
    \/ T03_KjorIgjen

SpecGjenta == InitGjenta /\ [][NextGjenta]_vars

\* the corridor step of the running script has completed
KorridorFerdig == pc \in {"s03_done", "t03_done"}

\* the minima the corridor step holds per corridor: the MIN statistics of the
\* Dissolve in 03_segmenter / root 02, the CorrStats minima in Tømmer/03
KorridorMinima(korridor, st) ==
    IF script = "tommer"
    THEN [ vid \in DOMAIN st |-> << st[vid].veg_tonn, st[vid].maks_len, st[vid].min_hoy >> ]
    ELSE [ vid \in { korridor[k].vid : k \in 1..Len(korridor) } |->
             { << korridor[k].MIN_TILLATT_TONN, korridor[k].MIN_MAKS_LENGDE,
                  korridor[k].MIN_MIN_HOYDE >> :
                 k \in { k \in 1..Len(korridor) : korridor[k].vid = vid } } ]

\* C11: when the corridor step has run a second time on the same
\* Veg_TillatProfil, every corridor has the minimum the first run gave it,
\* and the corridor table as a whole is the one the first run left.
C11_DissolveToGangerSomEn ==
    (kjoring = 2 /\ KorridorFerdig) =>
        /\ KorridorMinima(Veg_TillatKorridor, stats) = KorridorMinima(forrige.korridor, forrige.stats)
        /\ Veg_TillatKorridor = forrige.korridor

\* C11 witness: the second run has completed on a link of two segments whose
\* weights differ, so the corridor minimum is a proper minimum
C11_Witness ==
    /\ kjoring = 2 /\ KorridorFerdig
    /\ \E i, j \in 1..Len(Veg_TillatProfil) :
          /\ Veg_TillatProfil[i].vid = Veg_TillatProfil[j].vid
          /\ Veg_TillatProfil[i].TILLATT_TONN # None
          /\ Veg_TillatProfil[j].TILLATT_TONN # None
          /\ Veg_TillatProfil[i].TILLATT_TONN < Veg_TillatProfil[j].TILLATT_TONN
    /\ Len(Veg_TillatKorridor) >= 1

----------------------------------------------------------------------------
(* Zero-length segments and bottleneck rows *)

\* Segments whose stored SLUTTPOS is not beyond their STARTPOS
NullengdeVeg ==
    { [vid |-> 5, s0 |-> 0, s1 |-> 0],
      [vid |-> 5, s0 |-> 55, s1 |-> 55],
      [vid |-> 5, s0 |-> 58, s1 |-> 55] }

\* Profile rows, zero-length ones among them, all below the weight requirement
\* so that stage 04 passes them on as bottlenecks
NullengdeProfil ==
    { [ NullRow([vid |-> sp[1], s0 |-> sp[2], s1 |-> sp[3]]) EXCEPT
          !.BK_VERDI = w[1], !.MIN_BRU_TONN = w[2], !.MAKS_LENGDE = 195,
          !.TILLATT_TONN = V904Tillatt(w[1], w[2]) ] :
        sp \in { <<5, 0, 0>>, <<5, 55, 55>>, <<5, 0, 50>>, <<5, 50, 100>> },
        w \in { <<400, None>>, <<None, 350>> } }

\* stage 02 of the scripts with a strict overlap test, on a zero-length segment
InitNullengde02 ==
    /\ script \in {"v904", "test", "bak"}
    /\ pc = "start"
    /\ cur = 1
    /\ Vegnett \in { <<r>> : r \in NullengdeVeg }
    /\ Bruksklasse \in SeqsUpTo(BKUniverse, MaxRec)
    /\ Bruer \in SeqsUpTo(BruUniverse, MaxRec)
    /\ Hoydebegrensning \in SeqsUpTo(HoyUniverse, MaxRec)
    /\ Veg_TillatProfil = << >>
    /\ stats = << >>
    /\ Veg_TillatSegmentert = << >>
    /\ Veg_TillatKorridor = << >>
    /\ Flaskehalser = << >>
    /\ Aarsak = << >>
    /\ ForsteKjoring
    /\ Vegnett_MedOmkjoringStatus = << >>
    /\ NvdbHvile

\* stages 03 to 05 on a profile with zero-length rows
InitNullengde05 ==
    /\ script \in {"normal", "rot"}
    /\ pc = "start"
    /\ cur = 1
    /\ Vegnett = << >>
    /\ Bruksklasse = << >>
    /\ Bruer = << >>
    /\ Hoydebegrensning = << >>
    /\ Veg_TillatProfil \in SeqsUpTo(NullengdeProfil, MaxProf)
    /\ stats = << >>
    /\ Veg_TillatSegmentert = << >>
    /\ Veg_TillatKorridor = << >>
    /\ Flaskehalser = << >>
    /\ Aarsak = << >>
    /\ ForsteKjoring
    /\ Vegnett_MedOmkjoringStatus = << >>
    /\ NvdbHvile

InitNullengde == InitNullengde02 \/ InitNullengde05

NextNullengde ==
    \/ V904_Opprett
    \/ V904_FyllRad
    \/ Test_Opprett
    \/ Test_OppdaterRad
    \/ Bak_Opprett
    \/ Bak_OppdaterRad
    \/ NextKjede

SpecNullengde == InitNullengde /\ [][NextNullengde]_vars

\* positions as stored in the table describe no stretch of positive length
Nullengde(r) == r.s0 # None /\ r.s1 # None /\ r.s1 <= r.s0

\* stage 02: a written row of a zero-length segment carries no value of a
\* dimension the script matches with the strict predicate
NullengdeUtenTreff02 ==
    script \in {"v904", "test", "bak"} =>
        \A i \in Behandlet :
            Nullengde(Vegnett[i]) =>
                /\ Veg_TillatProfil[i].MIN_BRU_TONN = None
                /\ script \in {"test", "bak"} =>
                      /\ Veg_TillatProfil[i].BK_VERDI = None
                      /\ Veg_TillatProfil[i].MAKS_LENGDE = None

\* stage 05: the update loop leaves a zero-length bottleneck row as it is,
\* which is what it does with a row that has no hits
NullengdeUtenTreff05 ==
    (script \in {"normal", "rot"} /\ pc = "a_rows" /\ Nullengde(Aarsak[cur]))
        => Aarsak'[cur] = Aarsak[cur]

\* C12: a zero-length segment or bottleneck row (SLUTTPOS <= STARTPOS as
\* stored) matches no restriction record and no profile row in the scripts
\* that apply the strict overlap predicate: stage 02 of v904 (bridges),
\* testversjon and bak, and both stage-05 scripts.
C12_NullengdeTrefferIngenting ==
    [](NullengdeUtenTreff02) /\ [][NullengdeUtenTreff05]_vars

\* the same for every script but Normaltransport/05
C12_NullengdeUnntatt05v904 ==
    [](NullengdeUtenTreff02) /\ [][script = "rot" => NullengdeUtenTreff05]_vars

----------------------------------------------------------------------------
(* Records and segments without a join key *)

\* Vegnett rows: one complete, the others without VEGLENKESEKV_ID or without
\* a position
NokkelVeg ==
    { [vid |-> 5, s0 |-> 0, s1 |-> 100],
      [vid |-> None, s0 |-> 0, s1 |-> 100],
      [vid |-> 5, s0 |-> None, s1 |-> 100],
      [vid |-> 5, s0 |-> 0, s1 |-> None] }

NokkelBK ==
    { [vid |-> 5, s0 |-> 20, s1 |-> 60, bk |-> 400, ml |-> 195],
      [vid |-> None, s0 |-> 20, s1 |-> 60, bk |-> 350, ml |-> 195],
      [vid |-> 5, s0 |-> None, s1 |-> 60, bk |-> 350, ml |-> 195] }

NokkelBru ==
    { [vid |-> 5, s0 |-> 55, s1 |-> 58, tonn |-> 350],
      [vid |-> None, s0 |-> 55, s1 |-> 58, tonn |-> 300],
      [vid |-> 5, s0 |-> 55, s1 |-> None, tonn |-> 300] }

NokkelHoy ==
    { [vid |-> 5, s0 |-> 58, s1 |-> 58, h |-> 41],
      [vid |-> None, s0 |-> 58, s1 |-> 58, h |-> 40] }

\* profile rows for root 02: two complete, one without VEGLENKESEKV_ID
NokkelProfil ==
    { [ NullRow([vid |-> v, s0 |-> 0, s1 |-> 100]) EXCEPT
          !.BK_VERDI = 400, !.MIN_BRU_TONN = b, !.TILLATT_TONN = V904Tillatt(400, b) ] :
        v \in {5, None}, b \in {350, None} }

InitManglerNokkel02 ==
    /\ script \in {"v904", "test", "bak", "tommer", "v5"}
    /\ pc = "start"
    /\ cur = 1
    /\ Vegnett \in { <<r>> : r \in NokkelVeg }
    /\ Bruksklasse \in SeqsUpTo(NokkelBK, MaxRec)
    /\ Bruer \in SeqsUpTo(NokkelBru, MaxRec)
    /\ Hoydebegrensning \in SeqsUpTo(NokkelHoy, MaxRec)
    /\ Veg_TillatProfil = << >>
    /\ stats = << >>
    /\ Veg_TillatSegmentert = << >>
    /\ Veg_TillatKorridor = << >>
    /\ Flaskehalser = << >>
    /\ Aarsak = << >>
    /\ ForsteKjoring
    /\ Vegnett_MedOmkjoringStatus = << >>
    /\ NvdbHvile

InitManglerNokkel03 ==
    /\ script = "rot"
    /\ pc = "start"
    /\ cur = 1
    /\ Vegnett = << >>
    /\ Bruksklasse = << >>
    /\ Bruer = << >>
    /\ Hoydebegrensning = << >>
    /\ Veg_TillatProfil \in SeqsUpTo(NokkelProfil, MaxProf)
    /\ stats = << >>
    /\ Veg_TillatSegmentert = << >>
    /\ Veg_TillatKorridor = << >>
    /\ Flaskehalser = << >>
    /\ Aarsak = << >>
    /\ ForsteKjoring
    /\ Vegnett_MedOmkjoringStatus = << >>
    /\ NvdbHvile

InitManglerNokkel == InitManglerNokkel02 \/ InitManglerNokkel03

NextManglerNokkel ==
    \/ NextProfil
    \/ R02_LesStats
    \/ R02_OppdaterSegment
    \/ R02_Dissolve
    \/ R02_OppdaterKorridor

SpecManglerNokkel == InitManglerNokkel /\ [][NextManglerNokkel]_vars

\* script sc compares positions when it matches records of type t
BrukerPosisjon(sc, t) ==
    CASE sc = "v904" -> TRUE
      [] sc \in {"test", "bak"} -> t # "hoy"
      [] OTHER -> FALSE

\* record r of type t lacks a key that script sc joins on
NokkelMangler(sc, t, r) ==
    r.vid = None \/ (BrukerPosisjon(sc, t) /\ (r.s0 = None \/ r.s1 = None))

\* the records of a table that have their join key
MedNokkel(sc, t, tab) == SelectSeq(tab, LAMBDA r : ~NokkelMangler(sc, t, r))

\* the run has not been ended by an exception
IkkeAvbrutt == pc # "avbrutt" /\ utfall = "kjorer"

\* every written row is the row derived without the key-less records, and
\* the row of a key-less segment carries no restriction value
NokkelloseHoppetOver ==
    script \in {"v904", "test", "bak", "tommer", "v5"} =>
        \A i \in Behandlet \cap (1..Len(Veg_TillatProfil)) :
            IF NokkelMangler(script, "bk", Vegnett[i])
            THEN /\ Veg_TillatProfil[i].BK_VERDI = None
                 /\ Veg_TillatProfil[i].MAKS_LENGDE = None
                 /\ Veg_TillatProfil[i].MIN_BRU_TONN = None
                 /\ Veg_TillatProfil[i].MIN_HOYDE = None
                 /\ Veg_TillatProfil[i].TILLATT_TONN = None
            ELSE SkrevneMinima(i) =
                   Minima(script, Vegnett[i],
                          MedNokkel(script, "bk", Bruksklasse),
                          MedNokkel(script, "bru", Bruer),
                          MedNokkel(script, "hoy", Hoydebegrensning))

\* C13: a restriction record or road segment without its join key
\* (VEGLENKESEKV_ID, or a position the overlap test needs) is skipped and
\* the run goes on with the next record: no run is ended by an exception,
\* and what is written is what the records with keys alone give.
C13_NokkelloseHoppesOver == IkkeAvbrutt /\ NokkelloseHoppetOver

\* the part of C13 that 02_bygg_testversjon.py keeps for restriction
\* records: it never aborts and skips every key-less record
C13_TestversjonHopperOverPoster ==
    script = "test" =>
        /\ IkkeAvbrutt
        /\ \A i \in Behandlet \cap (1..Len(Veg_TillatProfil)) :
              ~NokkelMangler("test", "bk", Vegnett[i]) =>
                  SkrevneMinima(i) =
                     Minima(script, Vegnett[i],
                            MedNokkel(script, "bk", Bruksklasse),
                            MedNokkel(script, "bru", Bruer),
                            MedNokkel(script, "hoy", Hoydebegrensning))

----------------------------------------------------------------------------
(* Stage 02 on a geodatabase whose restriction feature classes lack a field *)

\* every feature class present, at most one field missing
FeltKataloger ==
    { [ KomplettKatalog EXCEPT !.felt[fc] = @ \ {f} ] :
        fc \in RestriksjonsFC,
        f \in {"BK_VERDI", "MAKS_LENGDE", "TILLATT_TONN", "BRU_NAVN", "SKILTET_HOYDE"} }

InitManglerFelt ==
    /\ script \in {"v904", "test"}
    /\ pc = "start"
    /\ cur = 1
    /\ Vegnett \in { <<VegUniverse[i]>> : i \in 1..Len(VegUniverse) }
    /\ Bruksklasse \in SeqsUpTo(BKUniverse, MaxRec)
    /\ Bruer \in SeqsUpTo(BruUniverse, MaxRec)
    /\ Hoydebegrensning \in SeqsUpTo(HoyUniverse, MaxRec)
    /\ Veg_TillatProfil = << >>
    /\ stats = << >>
    /\ Veg_TillatSegmentert = << >>
    /\ Veg_TillatKorridor = << >>
    /\ Flaskehalser = << >>
    /\ Aarsak = << >>
    /\ kjoring = 1
    /\ forrige = << >>
    /\ utfall = "kjorer"
    /\ logg = {}
    /\ katalog \in FeltKataloger
    /\ Vegnett_MedOmkjoringStatus = << >>
    /\ NvdbHvile

NextManglerFelt ==
    \/ V904_Opprett
    \/ V904_FyllRad
    \/ Test_Opprett
    \/ Test_OppdaterRad

SpecManglerFelt == InitManglerFelt /\ [][NextManglerFelt]_vars

\* the restriction fields the geodatabase lacks
ManglendeFelt ==
    UNION { KomplettKatalog.felt[fc] \ katalog.felt[fc] : fc \in RestriksjonsFC }
      \cap {"BK_VERDI", "MAKS_LENGDE", "TILLATT_TONN", "SKILTET_HOYDE"}

\* the restriction tables with the missing fields read as None
BkUten ==
    [ i \in 1..Len(Bruksklasse) |->
        [ Bruksklasse[i] EXCEPT
            !.bk = IF "BK_VERDI" \in ManglendeFelt THEN None ELSE @,
            !.ml = IF "MAKS_LENGDE" \in ManglendeFelt THEN None ELSE @ ] ]

BruUten ==
    [ i \in 1..Len(Bruer) |->
        [ Bruer[i] EXCEPT !.tonn = IF "TILLATT_TONN" \in ManglendeFelt THEN None ELSE @ ] ]

HoyUten ==
    [ i \in 1..Len(Hoydebegrensning) |->
        [ Hoydebegrensning[i] EXCEPT
            !.h = IF "SKILTET_HOYDE" \in ManglendeFelt THEN None ELSE @ ] ]

\* the run has printed a warning about missing fields
AdvartOmFelt == \E w \in logg : w[1] = "Mangler felter"

\* every written row is the row the tables give with the missing field None
MangletFeltErNone ==
    \A i \in Behandlet \cap (1..Len(Veg_TillatProfil)) :
        SkrevneMinima(i) = Minima(script, Vegnett[i], BkUten, BruUten, HoyUten)

\* C14: when a restriction field is missing from an input feature class,
\* the run logs a warning and runs to completion, the dimension the field
\* feeds is None for every segment, and no other field's value stands in
\* for it.
C14_ManglendeFeltErFravaer ==
    ManglendeFelt # {} =>
        /\ IkkeAvbrutt
        /\ pc # "start" => AdvartOmFelt
        /\ MangletFeltErNone

\* the part of C14 that 02_bygg_testversjon.py keeps: without MAKS_LENGDE
\* it warns, completes, and writes no length
C14_TestUtenMaksLengde ==
    script = "test" /\ ManglendeFelt = {"MAKS_LENGDE"} =>
        /\ IkkeAvbrutt
        /\ pc # "start" => AdvartOmFelt
        /\ MangletFeltErNone

----------------------------------------------------------------------------
(* Stages 02 and 04 on a geodatabase that lacks an input feature class *)

\* every field present, at most one input feature class of stage 02 missing
FCKataloger ==
    { [ KomplettKatalog EXCEPT !.fc = @ \ {x} ] :
        x \in {"Vegnett", "ingen"} \cup RestriksjonsFC }

\* a feature class that does not exist has no rows
TabellI(kat, fc, tabeller) == IF fc \in kat.fc THEN tabeller ELSE { << >> }

InitManglerFC02 ==
    /\ script \in {"v904", "test"}
    /\ pc = "start"
    /\ cur = 1
    /\ katalog \in FCKataloger
    /\ Vegnett \in TabellI(katalog, "Vegnett",
                           { <<VegUniverse[i]>> : i \in 1..Len(VegUniverse) })
    /\ Bruksklasse \in TabellI(katalog, "Bruksklasse", SeqsUpTo(BKUniverse, MaxRec))
    /\ Bruer \in TabellI(katalog, "Bruer", SeqsUpTo(BruUniverse, MaxRec))
    /\ Hoydebegrensning \in
          TabellI(katalog, "Hoydebegrensning", SeqsUpTo(HoyUniverse, MaxRec))
    /\ Veg_TillatProfil = << >>
    /\ stats = << >>
    /\ Veg_TillatSegmentert = << >>
    /\ Veg_TillatKorridor = << >>
    /\ Flaskehalser = << >>
    /\ Aarsak = << >>
    /\ kjoring = 1
    /\ forrige = << >>
    /\ utfall = "kjorer"
    /\ logg = {}
    /\ Vegnett_MedOmkjoringStatus = << >>
    /\ NvdbHvile

\* Normaltransport/04 started on a geodatabase in which stage 03 has left
\* no Veg_TillatSegmentert
InitManglerFC04 ==
    /\ script = "normal"
    /\ pc = "s03_done"
    /\ cur = 1
    /\ katalog = [ KomplettKatalog EXCEPT !.fc = @ \ {"Veg_TillatSegmentert"} ]
    /\ Vegnett = << >>
    /\ Bruksklasse = << >>
    /\ Bruer = << >>
    /\ Hoydebegrensning = << >>
    /\ Veg_TillatProfil \in SeqsUpTo(ProfilUniverse, MaxProf)
    /\ stats = << >>
    /\ Veg_TillatSegmentert = << >>
    /\ Veg_TillatKorridor = << >>
    /\ Flaskehalser = << >>
    /\ Aarsak = << >>
    /\ kjoring = 1
    /\ forrige = << >>
    /\ utfall = "kjorer"
    /\ logg = {}
    /\ Vegnett_MedOmkjoringStatus = << >>
    /\ NvdbHvile

InitManglerFC == InitManglerFC02 \/ InitManglerFC04

NextManglerFC ==
    \/ V904_Opprett
    \/ V904_FyllRad
    \/ Test_Opprett
    \/ Test_OppdaterRad
    \/ N04_Flaskehalser

SpecManglerFC == InitManglerFC /\ [][NextManglerFC]_vars

\* the input feature classes the geodatabase lacks
ManglendeFC == KomplettKatalog.fc \ katalog.fc

\* the stage has got past opening its inputs
ForbiApning == pc \notin {"start", "s03_done"}

AvbruttMedRuntimeError == pc = "avbrutt" /\ utfall = "RuntimeError"

\* C15: when an input feature class that a stage reads does not exist, the
\* stage aborts with a RuntimeError; it neither goes on with empty data nor
\* fails with another error.
C15_ManglendeFCGirRuntimeError ==
    ManglendeFC # {} /\ ForbiApning => AvbruttMedRuntimeError

\* the part of C15 that Normaltransport/02_bygg_tillat_profil_v904.py keeps
C15_V904AvbryterMedRuntimeError ==
    script = "v904" /\ ManglendeFC # {} /\ ForbiApning => AvbruttMedRuntimeError

----------------------------------------------------------------------------
(* Download from the NVDB REST API: the paging loops.                      *)
(* A response is its HTTP status, the number of objects on the page and    *)
(* metadata.neste, absent when both start and href are None.  A page token *)
(* is a positive integer; 0 stands for a request without one.              *)

\* pages of the largest result set
MaxSider == 3

\* the safety switch max_pages of the guarded generators, and the length
\* at which the model stops counting page requests
max_pages == 3

\* no stage of the pipeline has tables in a download
TommeTabeller ==
    /\ cur = 1
    /\ Vegnett = << >>
    /\ Bruksklasse = << >>
    /\ Bruer = << >>
    /\ Hoydebegrensning = << >>
    /\ Veg_TillatProfil = << >>
    /\ stats = << >>
    /\ Veg_TillatSegmentert = << >>
    /\ Veg_TillatKorridor = << >>
    /\ Flaskehalser = << >>
    /\ Aarsak = << >>
    /\ Vegnett_MedOmkjoringStatus = << >>

tabellVars ==
    <<cur, Vegnett, Bruksklasse, Bruer, Hoydebegrensning, Veg_TillatProfil, stats,
      Veg_TillatSegmentert, Veg_TillatKorridor, Flaskehalser, Aarsak,
      Vegnett_MedOmkjoringStatus>>

\* the local variables of a paging loop before its first iteration; r is
\* the status of the last response of the retry loop, "N/A" for r = None
NyKlient ==
    [ start |-> None, url |-> 0, page |-> 0, seen_starts |-> {}, seen_hrefs |-> {},
      attempt |-> 0, r |-> "N/A" ]

IngenSvar == [ status |-> None, objs |-> 0, start |-> None, href |-> None ]

IngenForesporsel == [ sider |-> 0, token |-> None ]

\* page requests sent so far, counted up to max_pages + 1.  A loop that
\* goes on asking for the same page is, once the count stands, a step that
\* leaves the state as it is: the script never leaves "hent".
Teller(n) == IF n <= max_pages THEN n + 1 ELSE n

\* A server that holds a finite result set of server.sider pages.  The
\* request without token gets page 1, the request with token k page k + 1.
\* Page k < sider carries neste = k.  After the last page the server either
\* gives no neste ("ingen"), or neste leads to an empty page that has no
\* neste ("tom") or that repeats its own token ("tomMedNeste").
EndeligSvar(srv, token) ==
    IF token < srv.sider
    THEN LET neste == IF token + 1 < srv.sider THEN token + 1
                      ELSE IF srv.hale = "ingen" THEN None ELSE srv.sider
         IN  [ status |-> 200, objs |-> 1, start |-> neste, href |-> neste ]
    ELSE LET neste == IF srv.hale = "tomMedNeste" THEN Max2(token, 1) ELSE None
         IN  [ status |-> 200, objs |-> 0, start |-> neste, href |-> neste ]

EndeligeServere ==
    [ art : {"endelig"}, sider : 0..MaxSider, hale : {"ingen", "tom", "tomMedNeste"} ]

\* "if not nxt": metadata.neste is absent or empty
IngenNeste(r) == r.start = None /\ r.href = None

\* src/nvdb_to_gdb.py iter_paged: one iteration of "while True"
IterPaged_Hent ==
    /\ script = "nvdb0" /\ pc = "hent"
    /\ LET token == IF klient.start # None THEN klient.start ELSE 0
           r     == EndeligSvar(server, token)
       IN  /\ foresporsler' = [ sider |-> Teller(foresporsler.sider), token |-> token ]
           /\ svar' = r
           /\ IF r.status # 200
              THEN pc' = "feil" /\ utfall' = "HTTPError" /\ UNCHANGED klient
              ELSE IF r.objs = 0 \/ IngenNeste(r)
              THEN pc' = "ferdig" /\ UNCHANGED <<utfall, klient>>
              ELSE /\ klient' = [ klient EXCEPT !.start = r.start ]
                   /\ pc' = "hent"
                   /\ UNCHANGED utfall
    /\ UNCHANGED <<script, tabellVars, kjoring, forrige, logg, katalog,
                   server, ventet, err, innsatt, cnt_rows>>

\* src/06_hent_ekstra_info.py hent_alle_objekter: one iteration of
\* "while url"
HentAlle_Hent ==
    /\ script = "h06" /\ pc = "hent"
    /\ LET token == klient.url
           r     == EndeligSvar(server, token)
       IN  /\ foresporsler' = [ sider |-> Teller(foresporsler.sider), token |-> token ]
           /\ svar' = r
           /\ IF r.status # 200 \/ r.objs = 0 \/ r.href = None
              THEN pc' = "ferdig" /\ UNCHANGED klient
              ELSE /\ klient' = [ klient EXCEPT !.url = r.href ]
                   /\ pc' = "hent"
    /\ UNCHANGED <<script, tabellVars, kjorVars, server, ventet, err, innsatt, cnt_rows>>

\* src/FWD/fwd_bkt_report_mr.py nvdb_get_all_592: one iteration of
\* "while True"
Fwd_Hent ==
    /\ script = "fwd" /\ pc = "hent"
    /\ LET token == IF klient.start # None THEN klient.start ELSE 0
           r     == EndeligSvar(server, token)
       IN  /\ foresporsler' = [ sider |-> Teller(foresporsler.sider), token |-> token ]
           /\ svar' = r
           /\ IF r.status # 200
              THEN pc' = "feil" /\ utfall' = "HTTPError" /\ UNCHANGED klient
              ELSE /\ klient' = [ klient EXCEPT !.start = r.start ]
                   /\ pc' = IF r.start = None THEN "ferdig" ELSE "hent"
                   /\ UNCHANGED utfall
    /\ UNCHANGED <<script, tabellVars, kjoring, forrige, logg, katalog,
                   server, ventet, err, innsatt, cnt_rows>>

InitSider ==
    /\ script \in {"nvdb0", "h06", "fwd"}
    /\ pc = "hent"
    /\ TommeTabeller
    /\ ForsteKjoring
    /\ server \in EndeligeServere
    /\ klient = NyKlient
    /\ foresporsler = IngenForesporsel
    /\ svar = IngenSvar
    /\ ventet = << >>
    /\ err = 0
    /\ innsatt = 0
    /\ cnt_rows = 0

NextSider ==
    \/ IterPaged_Hent
    \/ HentAlle_Hent
    \/ Fwd_Hent

\* a script is one sequential process: its loop goes on until it ends
SpecSider == InitSider /\ [][NextSider]_vars /\ WF_vars(NextSider)

\* the next-page token a script takes from a response
NesteToken(r) == IF script = "h06" THEN r.href ELSE r.start

\* every request after the first follows a response that had a next-page
\* token and carries that token
BarerForrigeToken ==
    pc = "hent" /\ foresporsler.token # None =>
        /\ NesteToken(svar) # None
        /\ foresporsler'.token = NesteToken(svar)

PagingSlutt == pc \in {"ferdig", "feil"}

\* C16: in a paging generator every page request after the first carries
\* the next-page token of the previous response, paging stops at the first
\* response without a further token, and it ends for every finite result
\* set.
C16_PagingFolgerTokenOgEnder ==
    /\ [][BarerForrigeToken]_vars
    /\ [](pc = "hent" /\ foresporsler.token # None => ~IngenNeste(svar))
    /\ <>PagingSlutt

\* the part of C16 that every generator keeps: the token of the previous
\* response is the token of the next request, and no request follows a
\* response without token
C16_TokenBaeresVidere ==
    /\ [][BarerForrigeToken]_vars
    /\ [](pc = "hent" /\ foresporsler.token # None => ~IngenNeste(svar))

\* the part of C16 that nvdb_to_gdb.py and 06_hent_ekstra_info.py keep:
\* they stop at an empty page and so end on every finite result set
C16_TomSideAvslutter == script \in {"nvdb0", "h06"} => <>PagingSlutt

\* nvdb_get_all_592 ends when the server's last response has no token
C16_FwdEnderUtenToken ==
    script = "fwd" /\ server.hale # "tomMedNeste" => <>PagingSlutt

----------------------------------------------------------------------------
(* The guarded generators: Normaltransport/nvdb_to_gdb_v904_v2.py ("nv2"), *)
(* Normaltransport/nvdb_to_gdb_v904.py ("nv1") and                         *)
(* Kjørelogg/kjorelogg_2026.py ("kjl"), the latter two with a retry loop   *)
(* around the GET; DF20/ekspor_sosi.py export_sosi_for_bbox ("sosi") is a  *)
(* retry loop around one export request.  Waits are in tenths of a second. *)

\* distinct page tokens the server may send
MaxTok == 2

\* max_retries of iter_paged and retries of export_sosi_for_bbox
max_retries == 5

\* retry_backoff = 2.0 s
retry_backoff == 20

\* any response a server can give to a page request
SvarUniverse ==
    [ status : {200}, objs : {0, 1},
      start : {None} \cup (1..MaxTok), href : {None} \cup (1..MaxTok) ]

\* what a GET can come to: a response with its status, or an exception of
\* requests
GetUtfall == {"200", "404", "503", "ConnectionError", "ReadTimeout"}

RECURSIVE Pow2(_)
Pow2(n) == IF n = 0 THEN 1 ELSE 2 * Pow2(n - 1)

\* wait = retry_backoff * (2 ** (attempt - 1))
Ventetid(attempt) == retry_backoff * Pow2(attempt - 1)

\* sleep_s = min(5.0, 0.5 * (2 ** (attempt - 1)))
SosiVentetid(attempt) == Min2(50, 5 * Pow2(attempt - 1))

\* the statuses that leave the retry loop by "break"
BryterLokka(sc, status) ==
    IF sc = "nv1" THEN status \in {"200", "404"} ELSE status = "200"

\* "if nxt_start in seen_starts" / "if href in seen_hrefs"
\* Faulty variant: no token is ever taken for a repeated one.
AldriSett(seen, token) == FALSE

AlleredeSett(seen, token) == token \in seen

\* top of "while True": page += 1 and the safety switch
Vaktet_NySide ==
    /\ script \in {"nv2", "nv1", "kjl"} /\ pc = "hent"
    /\ klient' = [ klient EXCEPT !.page = @ + 1, !.attempt = 1, !.r = "N/A" ]
    /\ IF klient.page + 1 > max_pages
       THEN /\ pc' = "feil"
            /\ utfall' = "RuntimeError"
            /\ UNCHANGED <<foresporsler, ventet>>
       ELSE /\ pc' = "forsok"
            /\ foresporsler' =
                  [ sider |-> Teller(foresporsler.sider),
                    token |-> IF klient.start # None THEN klient.start ELSE klient.url ]
            /\ ventet' = << >>
            /\ UNCHANGED utfall
    /\ UNCHANGED <<script, tabellVars, kjoring, forrige, logg, katalog,
                   server, svar, err, innsatt, cnt_rows>>

\* one session.get: in nv2 the only one for the page, in nv1 and kjl one
\* pass of "for attempt in range(1, max_retries + 1)" and, when the loop
\* ends with it, the test "if r is None or r.status_code != 200" after it
Vaktet_Forsok ==
    /\ script \in {"nv2", "nv1", "kjl"} /\ pc = "forsok"
    /\ \E u \in GetUtfall, body \in SvarUniverse :
         LET unntak  == u \in {"ConnectionError", "ReadTimeout"}
             fanget  == script # "nv2" /\ u = "ConnectionError"
             r       == IF unntak THEN klient.r ELSE u
             bryter  == ~unntak /\ (script = "nv2" \/ BryterLokka(script, u))
             sist    == klient.attempt = max_retries
         IN  IF unntak /\ ~fanget
             THEN /\ pc' = "feil" /\ utfall' = u
                  /\ UNCHANGED <<klient, svar, ventet>>
             ELSE IF bryter \/ sist
             THEN /\ klient' = [ klient EXCEPT !.r = r ]
                  /\ ventet' = IF bryter THEN ventet
                               ELSE Append(ventet, Ventetid(klient.attempt))
                  /\ IF r = "200"
                     THEN pc' = "side" /\ svar' = body /\ UNCHANGED utfall
                     ELSE pc' = "feil" /\ utfall' = "RuntimeError" /\ UNCHANGED svar
             ELSE /\ klient' = [ klient EXCEPT !.r = r, !.attempt = @ + 1 ]
                  /\ ventet' = Append(ventet, Ventetid(klient.attempt))
                  /\ UNCHANGED <<pc, utfall, svar>>
    /\ UNCHANGED <<script, tabellVars, kjoring, forrige, logg, katalog,
                   server, foresporsler, err, innsatt, cnt_rows>>

\* the page is yielded and metadata.neste decides how the loop goes on
Vaktet_Side ==
    /\ script \in {"nv2", "nv1", "kjl"} /\ pc = "side"
    /\ IF svar.objs = 0
       THEN pc' = "ferdig" /\ UNCHANGED <<klient, logg>>
       ELSE IF svar.start # None
       THEN IF AlleredeSett(klient.seen_starts, svar.start)
            THEN /\ pc' = "ferdig"
                 /\ logg' = logg \cup { <<"neste.start repeteres", svar.start>> }
                 /\ UNCHANGED klient
            ELSE /\ klient' = [ klient EXCEPT !.seen_starts = @ \cup {svar.start},
                                             !.start = svar.start ]
                 /\ pc' = "hent"
                 /\ UNCHANGED logg
       ELSE IF svar.href # None
       THEN IF AlleredeSett(klient.seen_hrefs, svar.href)
            THEN /\ pc' = "ferdig"
                 /\ logg' = logg \cup { <<"neste.href repeteres", svar.href>> }
                 /\ UNCHANGED klient
            ELSE /\ klient' = [ klient EXCEPT !.seen_hrefs = @ \cup {svar.href},
                                             !.url = svar.href, !.start = None ]
                 /\ pc' = "hent"
                 /\ UNCHANGED logg
       ELSE pc' = "ferdig" /\ UNCHANGED <<klient, logg>>
    /\ UNCHANGED <<script, tabellVars, kjoring, forrige, utfall, katalog,
                   server, foresporsler, svar, ventet, err, innsatt, cnt_rows>>

\* export_sosi_for_bbox: one pass of "for attempt in range(1, retries + 1)".
\* Every failure (HTTP status >= 400, a body that is not SOSI, an exception
\* of requests) is caught by "except Exception".
Sosi_Forsok ==
    /\ script = "sosi" /\ pc = "forsok"
    /\ \E u \in GetUtfall :
         IF u = "200"
         THEN /\ pc' = "ferdig"
              /\ klient' = [ klient EXCEPT !.r = "200" ]
              /\ UNCHANGED <<utfall, ventet>>
         ELSE /\ ventet' = Append(ventet, SosiVentetid(klient.attempt))
              /\ IF klient.attempt = max_retries
                 THEN /\ pc' = "feil" /\ utfall' = "RuntimeError"
                      /\ UNCHANGED klient
                 ELSE /\ klient' = [ klient EXCEPT !.attempt = @ + 1 ]
                      /\ UNCHANGED <<pc, utfall>>
    /\ UNCHANGED <<script, tabellVars, kjoring, forrige, logg, katalog,
                   server, foresporsler, svar, err, innsatt, cnt_rows>>

\* a server that may answer anything
VilkarligServer == [ art |-> "vilkarlig", sider |-> 0, hale |-> "ingen" ]

InitVaktet ==
    /\ script \in {"nv2", "nv1", "kjl", "sosi"}
    /\ pc = IF script = "sosi" THEN "forsok" ELSE "hent"
    /\ TommeTabeller
    /\ ForsteKjoring
    /\ server = VilkarligServer
    /\ klient = IF script = "sosi" THEN [ NyKlient EXCEPT !.attempt = 1 ] ELSE NyKlient
    /\ foresporsler = IngenForesporsel
    /\ svar = IngenSvar
    /\ ventet = << >>
    /\ err = 0
    /\ innsatt = 0
    /\ cnt_rows = 0

NextVaktet ==
    \/ Vaktet_NySide
    \/ Vaktet_Forsok
    \/ Vaktet_Side
    \/ Sosi_Forsok

\* a script is one sequential process: its loop goes on until it ends
SpecVaktet == InitVaktet /\ [][NextVaktet]_vars /\ WF_vars(NextVaktet)

\* the token the generator would follow has been followed before
RepetertToken ==
    /\ pc = "side" /\ svar.objs > 0
    /\ \/ svar.start # None /\ svar.start \in klient.seen_starts
       \/ svar.start = None /\ svar.href # None /\ svar.href \in klient.seen_hrefs

\* C17: the guarded iter_paged ends for every sequence of server
\* responses: a repeated next.start, or a repeated next.href where the
\* response has no start, ends paging, and no more than max_pages page
\* requests are sent.
C17_VaktetPagingEnder ==
    /\ <>PagingSlutt
    /\ [][RepetertToken => pc' = "ferdig"]_vars
    /\ [](script \in {"nv2", "nv1", "kjl"} => foresporsler.sider <= max_pages)

\* paging has ended on a repeated next.start
C17_Witness ==
    /\ script \in {"nv2", "nv1", "kjl"}
    /\ pc = "ferdig"
    /\ svar.objs > 0 /\ svar.start # None
    /\ svar.start \in klient.seen_starts

\* the safety switch has ended paging after max_pages page requests
C17_SikkerhetsbryterNaadd ==
    ~(script \in {"nv2", "nv1", "kjl"} /\ pc = "feil" /\ klient.page > max_pages)

\* the run has ended in the retry loop, not at the safety switch
FeiletIForsok ==
    script \in {"nv1", "kjl", "sosi"} /\ pc = "feil" /\ klient.page <= max_pages

\* every wait is twice the one before it
VentetDobles == \A i \in 1..(Len(ventet) - 1) : ventet[i + 1] = 2 * ventet[i]

\* max_retries attempts were made, each followed by a wait, before the
\* RuntimeError
ForsoktFulltUt ==
    FeiletIForsok =>
        /\ utfall = "RuntimeError"
        /\ klient.attempt = max_retries
        /\ Len(ventet) = max_retries

IngenSideEtterFeil == pc = "feil" => foresporsler' = foresporsler /\ pc' = "feil"

\* C18: a transient failure (a non-200 status, a connection error or a
\* timeout) is retried; after max_retries failed attempts, the wait
\* doubling after each, a RuntimeError is raised and no further page is
\* requested.
C18_ForbigaaendeFeilProvesIgjen ==
    /\ [](ForsoktFulltUt)
    /\ [](script \in {"nv1", "kjl", "sosi"} => VentetDobles)
    /\ [][IngenSideEtterFeil]_vars

\* the part of C18 that kjorelogg_2026.py keeps: it retries every non-200
\* status and every connection error with doubling waits; a read timeout
\* alone ends it at once
C18_KjoreloggUtenTidsavbrudd ==
    script = "kjl" =>
        /\ utfall # "ReadTimeout" => ForsoktFulltUt
        /\ VentetDobles

\* the part of C18 that every script keeps: nothing is requested after the
\* failure, and export_sosi_for_bbox tries retries times
C18_StopperEtterFeil ==
    /\ [][IngenSideEtterFeil]_vars
    /\ [](script = "sosi" => ForsoktFulltUt)

----------------------------------------------------------------------------
(* Normaltransport/nvdb_to_gdb_v904.py hent_bruer: the loop that inserts   *)
(* one row of Bruer per stedfesting of the fetched bridges, through        *)
(* safe_insert.  server holds the stedfestinger in the order fetched.      *)

\* stedfestinger fetched by one run
MaxRader == 4

\* safe_insert(..., max_print): insert errors printed in full
max_print == 2

\* a stedfesting with and one without veglenkesekvensid
Stedfestinger ==
    { [vid |-> 5, s0 |-> 0, s1 |-> 50, tonn |-> 500],
      [vid |-> None, s0 |-> 0, s1 |-> 50, tonn |-> 500] }

\* "if err_counter['n'] <= max_print"
\* Faulty variant: every insert error is printed.
LoggerAlltid(n) == TRUE

LoggerFeil(n) == n <= max_print

\* one pass of "for s in stedfestinger": a stedfesting without
\* veglenkesekvensid is passed over; for the others safe_insert calls
\* cur.insertRow, which inserts the row or raises
SafeInsert ==
    /\ script = "hent_bruer" /\ pc = "rows" /\ cur <= Len(server)
    /\ IF server[cur].vid = None
       THEN UNCHANGED <<Bruer, innsatt, err, logg, cnt_rows>>
       ELSE /\ \/ /\ Bruer' = Append(Bruer, server[cur])
                  /\ innsatt' = innsatt + 1
                  /\ UNCHANGED <<err, logg>>
               \/ /\ err' = err + 1
                  /\ logg' = IF LoggerFeil(err + 1)
                             THEN logg \cup { <<"insert-feil", err + 1>> }
                             ELSE logg
                  /\ UNCHANGED <<Bruer, innsatt>>
            /\ cnt_rows' = cnt_rows + 1
    /\ cur' = cur + 1
    /\ pc' = IF cur = Len(server) THEN "ferdig" ELSE "rows"
    /\ UNCHANGED <<script, Vegnett, Bruksklasse, Hoydebegrensning, Veg_TillatProfil, stats,
                   Veg_TillatSegmentert, Veg_TillatKorridor, Flaskehalser, Aarsak,
                   Vegnett_MedOmkjoringStatus, kjoring, forrige, utfall, katalog,
                   klient, foresporsler, svar, ventet, server>>

InitInsert ==
    /\ script = "hent_bruer"
    /\ TommeTabeller
    /\ ForsteKjoring
    /\ server \in UNION { [1..n -> Stedfestinger] : n \in 0..MaxRader }
    /\ pc = IF Len(server) = 0 THEN "ferdig" ELSE "rows"
    /\ klient = NyKlient
    /\ foresporsler = IngenForesporsel
    /\ svar = IngenSvar
    /\ ventet = << >>
    /\ err = 0
    /\ innsatt = 0
    /\ cnt_rows = 0

NextInsert == SafeInsert

\* a script is one sequential process: its loop goes on until it ends
SpecInsert == InitInsert /\ [][NextInsert]_vars /\ WF_vars(NextInsert)

\* stedfestinger with veglenkesekvensid among the first n
MedId(n) == Cardinality({ i \in 1..n : server[i].vid # None })

\* C19: safe_insert catches the exception of an insert, adds exactly one to
\* the error counter for it, prints the error only while the counter is at
\* most max_print, and the fetch loop goes on with the next row.
C19_SafeInsertTellerOgFortsetter ==
    /\ [][err' = err \/ (err' = err + 1 /\ innsatt' = innsatt)]_vars
    /\ [](err + innsatt = MedId(cur - 1))
    /\ [](logg = { <<"insert-feil", k>> : k \in 1..Min2(err, max_print) })
    /\ [](utfall = "kjorer")
    /\ <>(pc = "ferdig" /\ cur = Len(server) + 1)

\* more inserts failed than are printed, others succeeded, and the loop
\* has gone through every stedfesting
C19_Witness ==
    /\ script = "hent_bruer"
    /\ pc = "ferdig"
    /\ err > max_print
    /\ innsatt >= 1

----------------------------------------------------------------------------
(* Runs repeated on changed inputs: Normaltransport/02 (deletes and         *)
(* rebuilds Veg_TillatProfil), Normaltransport/07_blindveg_analyse.py step *)
(* 7 (updates UTEN_OMKJORING of the bottleneck layer in place) and          *)
(* Normaltransport/backfill_bruer_nulls.py (fills the NULL fields of Bruer *)
(* in place).  Of the four backfilled fields LENGDE_M stands for all; a    *)
(* Bruer row carries ALLE_EG as the length that text states (None if it    *)
(* states none) and, as bookkeeping, the LENGDE_M the download wrote.      *)

\* the inputs a later run of Normaltransport/02 may find
NyttVegnett == { <<VegUniverse[i]>> : i \in 1..Len(VegUniverse) }

NyBruksklasse == SeqsUpTo(BKUniverse, 1)

\* Bruer as nvdb_to_gdb leaves it
BruerMedAlleEg ==
    UNION { [ 1..n -> { r \in [ALLE_EG : {None, 120, 150}, hentet : {None, 100},
                                LENGDE_M : {None, 100}] : r.LENGDE_M = r.hentet } ] :
            n \in 0..MaxRec }

\* the bottleneck layer as stage 04 leaves it
Flaskehalslag ==
    { s \in SeqsUpTo([VEGLENKESEKV_ID : {5, 6}, UTEN_OMKJORING : {NullText}], MaxRec) :
        Len(s) >= 1 }

\* status_lookup: UTEN_OMKJORING per link of Vegnett_MedOmkjoringStatus
Statusoppslag == UNION { [ D -> {"JA", "NEI"} ] : D \in SUBSET {5, 6} }

\* the input feature classes are changed and the script is started again
V904_KjorIgjen ==
    /\ script = "v904" /\ pc = "done" /\ kjoring < MaxKjoring
    /\ kjoring' = kjoring + 1
    /\ Vegnett' \in NyttVegnett
    /\ Bruksklasse' \in NyBruksklasse
    /\ pc' = "start"
    /\ cur' = 1
    /\ UNCHANGED <<script, Bruer, Hoydebegrensning, Veg_TillatProfil, stats,
                   Veg_TillatSegmentert, Veg_TillatKorridor, Flaskehalser, Aarsak,
                   forrige, utfall, logg, katalog, nvdbVars, Vegnett_MedOmkjoringStatus>>

\* the row the UpdateCursor loop of backfill_bruer_nulls.py leaves
BackfillRad(row) ==
    IF row.ALLE_EG = None THEN row
    ELSE IF row.LENGDE_M = None THEN [ row EXCEPT !.LENGDE_M = row.ALLE_EG ]
    ELSE row

\* backfill_bruer_nulls.py, whole run
Backfill_Kjor ==
    /\ script = "bfb" /\ pc = "start"
    /\ Bruer' = [ i \in 1..Len(Bruer) |-> BackfillRad(Bruer[i]) ]
    /\ pc' = "done"
    /\ UNCHANGED <<script, cur, Vegnett, Bruksklasse, Hoydebegrensning, Veg_TillatProfil,
                   stats, Veg_TillatSegmentert, Veg_TillatKorridor, Flaskehalser, Aarsak,
                   kjorVars, nvdbVars, Vegnett_MedOmkjoringStatus>>

\* ALLE_EG of the rows is changed and the script is started again
Backfill_KjorIgjen ==
    /\ script = "bfb" /\ pc = "done" /\ kjoring < MaxKjoring
    /\ kjoring' = kjoring + 1
    /\ \E eg \in [ 1..Len(Bruer) -> {None, 120, 150} ] :
          Bruer' = [ i \in 1..Len(Bruer) |-> [ Bruer[i] EXCEPT !.ALLE_EG = eg[i] ] ]
    /\ pc' = "start"
    /\ UNCHANGED <<script, cur, Vegnett, Bruksklasse, Hoydebegrensning, Veg_TillatProfil,
                   stats, Veg_TillatSegmentert, Veg_TillatKorridor, Flaskehalser, Aarsak,
                   forrige, utfall, logg, katalog, nvdbVars, Vegnett_MedOmkjoringStatus>>

\* status_lookup.get(row[0], None)
StatusFor(oppslag, vid) == IF vid \in DOMAIN oppslag THEN oppslag[vid] ELSE NullText

\* 07_blindveg_analyse.py step 7, whole loop
B07_Oppdater ==
    /\ script = "b07" /\ pc = "start"
    /\ Flaskehalser' =
          [ i \in 1..Len(Flaskehalser) |->
              [ Flaskehalser[i] EXCEPT
                  !.UTEN_OMKJORING = StatusFor(stats, Flaskehalser[i].VEGLENKESEKV_ID) ] ]
    /\ pc' = "done"
    /\ UNCHANGED <<script, cur, Vegnett, Bruksklasse, Bruer, Hoydebegrensning, Veg_TillatProfil,
                   stats, Veg_TillatSegmentert, Veg_TillatKorridor, Aarsak,
                   kjorVars, nvdbVars, Vegnett_MedOmkjoringStatus>>

\* the road network gives another status and the script is started again
B07_KjorIgjen ==
    /\ script = "b07" /\ pc = "done" /\ kjoring < MaxKjoring
    /\ kjoring' = kjoring + 1
    /\ stats' \in Statusoppslag
    /\ pc' = "start"
    /\ UNCHANGED <<script, cur, Vegnett, Bruksklasse, Bruer, Hoydebegrensning, Veg_TillatProfil,
                   Veg_TillatSegmentert, Veg_TillatKorridor, Flaskehalser, Aarsak,
                   forrige, utfall, logg, katalog, nvdbVars, Vegnett_MedOmkjoringStatus>>

InitOmigjen ==
    /\ script \in {"v904", "bfb", "b07"}
    /\ pc = "start"
    /\ cur = 1
    /\ Vegnett \in IF script = "v904" THEN NyttVegnett ELSE { << >> }
    /\ Bruksklasse \in IF script = "v904" THEN NyBruksklasse ELSE { << >> }
    /\ Bruer \in CASE script = "v904" -> SeqsUpTo(BruUniverse, 1)
                   [] script = "bfb"  -> BruerMedAlleEg
                   [] OTHER           -> { << >> }
    /\ Hoydebegrensning = << >>
    /\ Veg_TillatProfil = << >>
    /\ stats \in IF script = "b07" THEN Statusoppslag ELSE { << >> }
    /\ Veg_TillatSegmentert = << >>
    /\ Veg_TillatKorridor = << >>
    /\ Flaskehalser \in IF script = "b07" THEN Flaskehalslag ELSE { << >> }
    /\ Aarsak = << >>
    /\ ForsteKjoring
    /\ Vegnett_MedOmkjoringStatus = << >>
    /\ NvdbHvile

NextOmigjen ==
    \/ V904_Opprett
    \/ V904_FyllRad
    \/ V904_KjorIgjen
    \/ Backfill_Kjor
    \/ Backfill_KjorIgjen
    \/ B07_Oppdater
    \/ B07_KjorIgjen

SpecOmigjen == InitOmigjen /\ [][NextOmigjen]_vars

\* Veg_TillatProfil is what the latest Vegnett and restriction tables give
ProfilFraSisteInndata ==
    Veg_TillatProfil =
        [ i \in 1..Len(Vegnett) |->
            V904Row(Vegnett[i], Bruksklasse, Bruer, Hoydebegrensning) ]

\* LENGDE_M of every bridge is the downloaded value or, without one, the
\* length its ALLE_EG states now
BruerFraSisteInndata ==
    \A i \in 1..Len(Bruer) :
        Bruer[i].LENGDE_M =
            IF Bruer[i].hentet # None THEN Bruer[i].hentet ELSE Bruer[i].ALLE_EG

\* UTEN_OMKJORING of every bottleneck is the status of the latest analysis
FlaskehalserFraSisteInndata ==
    \A i \in 1..Len(Flaskehalser) :
        Flaskehalser[i].UTEN_OMKJORING =
            StatusFor(stats, Flaskehalser[i].VEGLENKESEKV_ID)

\* C20: every run of a stage deletes the tables it produces and rebuilds
\* them in full, so that after any sequence of completed runs each produced
\* table holds exactly the rows and values derived from the inputs of the
\* latest run.
C20_SisteKjoringBestemmerTabellene ==
    pc = "done" =>
        CASE script = "v904" -> ProfilFraSisteInndata
          [] script = "bfb"  -> BruerFraSisteInndata
          [] script = "b07"  -> FlaskehalserFraSisteInndata
          [] OTHER           -> TRUE

\* the part of C20 that Normaltransport/02 and step 7 of
\* 07_blindveg_analyse.py keep
C20_ProfilOgStatusFraSisteKjoring ==
    pc = "done" =>
        /\ script = "v904" => ProfilFraSisteInndata
        /\ script = "b07" => FlaskehalserFraSisteInndata

\* backfill_bruer_nulls.py keeps C20 in its first run
C20_BackfillForsteKjoring ==
    script = "bfb" /\ pc = "done" /\ kjoring = 1 => BruerFraSisteInndata

----------------------------------------------------------------------------
(* The combined weight of a profile row *)

\* min(a, b) where None stands for a value that is not there
MinMedNone(a, b) ==
    IF a = None /\ b = None THEN None
    ELSE IF a = None THEN b
    ELSE IF b = None THEN a
    ELSE Min2(a, b)

\* C21: in every Veg_TillatProfil row TILLATT_TONN is the smaller of
\* BK_VERDI and MIN_BRU_TONN when both are present, the one that is present
\* when the other is None, and None when both are None.
C21_TillattErMinAvBkOgBru ==
    script \in {"v904", "test", "bak"} =>
        \A i \in Behandlet \cap (1..Len(Veg_TillatProfil)) :
            Veg_TillatProfil[i].TILLATT_TONN =
                MinMedNone(Veg_TillatProfil[i].BK_VERDI, Veg_TillatProfil[i].MIN_BRU_TONN)

\* a written row on which the bridge is lower than the road
C21_Witness ==
    /\ script \in {"v904", "test", "bak"}
    /\ \E i \in Behandlet \cap (1..Len(Veg_TillatProfil)) :
          /\ Veg_TillatProfil[i].BK_VERDI # None
          /\ Veg_TillatProfil[i].MIN_BRU_TONN # None
          /\ Veg_TillatProfil[i].MIN_BRU_TONN < Veg_TillatProfil[i].BK_VERDI

----------------------------------------------------------------------------
(* The BRU60 tag of Normaltransport/05 *)

\* (BK_VERDI, MIN_BRU_TONN) of a profile row: a road below a bridge below
\* 50 t, a bridge between 50 and 60 t above, at and without a road value,
\* and a row above every requirement
Bru60Vekter == { <<300, 400>>, <<400, 550>>, <<550, 550>>, <<None, 550>>, <<700, 650>> }

Bru60Universe ==
    { [ NullRow([vid |-> sp[1], s0 |-> sp[2], s1 |-> sp[3]]) EXCEPT
          !.BK_VERDI = w[1], !.MIN_BRU_TONN = w[2], !.MAKS_LENGDE = LENGDE_KRAV_V904,
          !.TILLATT_TONN = V904Tillatt(w[1], w[2]) ] :
        sp \in { <<5, 0, 50>>, <<5, 50, 100>>, <<6, 0, 100>> }, w \in Bru60Vekter }

InitBru60 ==
    /\ script = "normal"
    /\ pc = "start"
    /\ cur = 1
    /\ Vegnett = << >>
    /\ Bruksklasse = << >>
    /\ Bruer = << >>
    /\ Hoydebegrensning = << >>
    /\ Veg_TillatProfil \in SeqsUpTo(Bru60Universe, MaxProf)
    /\ stats = << >>
    /\ Veg_TillatSegmentert = << >>
    /\ Veg_TillatKorridor = << >>
    /\ Flaskehalser = << >>
    /\ Aarsak = << >>
    /\ ForsteKjoring
    /\ Vegnett_MedOmkjoringStatus = << >>
    /\ NvdbHvile

NextBru60 ==
    \/ S03_LesStats
    \/ S03_OppdaterSegment
    \/ S03_Dissolve
    \/ S03_OppdaterKorridor
    \/ N04_Flaskehalser
    \/ A904_Opprett
    \/ A904_Klassifiser

SpecBru60 == InitBru60 /\ [][NextBru60]_vars

\* the cause texts that hold the tag BRU60
Bru60Tekster ==
    { Join(v \o << "BRU60" >> \o t, ", ") :
        v \in { << >>, << "VEG" >> },
        t \in { << >>, << "LENGDE" >>, << "HØYDE" >>, << "LENGDE", "HØYDE" >> } }

\* the minimum bridge tonnage found for a row lies in [50 t, 60 t)
Bru50Til60(r) ==
    r.BRU_TONN_VERDI # None /\ r.BRU_TONN_VERDI >= VEKT_KRAV /\ r.BRU_TONN_VERDI < BRU_TONN_KRAV

\* C22: a classified bottleneck row carries the tag "BRU60" exactly when its
\* minimum bridge tonnage is at least 50 t and below 60 t.
C22_Bru60NaarBruMellom50Og60 ==
    \A i \in Klassifisert :
        Aarsak[i].AARSAK_DETALJERT \in Bru60Tekster <=> Bru50Til60(Aarsak[i])

\* what holds of the code: BRU60 exactly when the minimum bridge tonnage is
\* below 60 t and the weight tags do not already name the bridge
C22_Bru60NaarBruUnder60UtenBru ==
    \A i \in Klassifisert :
        Aarsak[i].AARSAK_DETALJERT \in Bru60Tekster
            <=> /\ Under(Aarsak[i].BRU_TONN_VERDI, BRU_TONN_KRAV)
                /\ Aarsak[i].AARSAK_DETALJERT
                     \notin { "BRU", "BRU, LENGDE", "BRU, HØYDE", "BRU, LENGDE, HØYDE" }
                                \cup BruVegTekster

\* a 40 t bridge tagged BRU60
C22_Bru60Under50 ==
    \E i \in Klassifisert :
        /\ Aarsak[i].AARSAK_DETALJERT \in Bru60Tekster
        /\ Aarsak[i].BRU_TONN_VERDI < VEKT_KRAV

----------------------------------------------------------------------------
(* 07_blindveg_analyse.py, steps 2 to 5: the network graph, its bridges     *)
(* and Vegnett_MedOmkjoringStatus.  Coordinates are in hundredths of a      *)
(* metre; a node is a point rounded to tenths of a metre.                   *)

MaxSeg == 3

\* round(x * 10) / 10 of one coordinate, in tenths: Python rounds a half to
\* the even neighbour
RundTidel(h) ==
    LET q == h \div 10
        r == h % 10
    IN  IF r < 5 THEN q
        ELSE IF r > 5 THEN q + 1
        ELSE IF q % 2 = 0 THEN q ELSE q + 1

round_coord(c) == << RundTidel(c[1]), RundTidel(c[2]) >>

\* end points of the segments: A, a point 4 cm from A, B and C
PktA  == << 0, 0 >>
PktA4 == << 4, 0 >>
PktB  == << 1000, 0 >>
PktC  == << 1000, 1004 >>

\* rows of Bruksklasse_904: the link id and the first and last point of the
\* geometry; one row has no link id
BlindvegUniverse ==
    { [ vid |-> 5, fra |-> PktA, til |-> PktB ],
      [ vid |-> 6, fra |-> PktB, til |-> PktA ],
      [ vid |-> 7, fra |-> PktA4, til |-> PktB ],
      [ vid |-> 8, fra |-> PktB, til |-> PktC ],
      [ vid |-> 9, fra |-> PktC, til |-> PktA ],
      [ vid |-> 10, fra |-> PktA, til |-> PktA4 ],
      [ vid |-> None, fra |-> PktA, til |-> PktC ] }

\* kant_key = (min(n_start, n_end), max(n_start, n_end)): the unordered pair
\* of the two nodes
kant_key(n_start, n_end) == { n_start, n_end }

\* the rows the read loop appends to alle_vider, in order
LesteSegmenter(tab) ==
    LET lest == SelectSeq(tab, LAMBDA row : row.vid # None)
    IN  [ i \in 1..Len(lest) |->
            [ vid |-> lest[i].vid, fra |-> lest[i].fra, til |-> lest[i].til,
              n_start |-> round_coord(lest[i].fra), n_end |-> round_coord(lest[i].til) ] ]

\* G after the read loop: nx.Graph holds one edge per pair of nodes
Graf(alle_vider) ==
    [ noder  |-> UNION { { alle_vider[i].n_start, alle_vider[i].n_end } :
                            i \in 1..Len(alle_vider) },
      kanter |-> { kant_key(alle_vider[i].n_start, alle_vider[i].n_end) :
                      i \in 1..Len(alle_vider) } ]

\* the nodes that can be reached from S along the edges
RECURSIVE Naadd(_, _)
Naadd(kanter, S) ==
    LET T == S \cup UNION { e \in kanter : e \cap S # {} }
    IN  IF T = S THEN S ELSE Naadd(kanter, T)

\* the connected components of a graph
Komponenter(noder, kanter) == { Naadd(kanter, {n}) : n \in noder }

\* nx.bridges(G): the edges whose removal increases the number of connected
\* components of G
nx_bridges(G) ==
    { e \in G.kanter :
        Cardinality(Komponenter(G.noder, G.kanter \ {e}))
            > Cardinality(Komponenter(G.noder, G.kanter)) }

\* steps 4 and 5 for one entry of alle_vider: the row inserted
StatusRad(v, broer) ==
    LET kant == kant_key(v.n_start, v.n_end)
        har_omkjoring == kant \notin broer
    IN  [ vid |-> v.vid, fra |-> v.fra, til |-> v.til,
          UTEN_OMKJORING |-> IF har_omkjoring THEN "NEI" ELSE "JA" ]

\* steps 2 to 4 and the start of step 5: the graph is built from
\* Bruksklasse_904, its bridges are computed, OUTFC_STATUS is deleted and
\* created empty
B07_ByggGraf ==
    /\ script = "b07" /\ pc = "graf"
    /\ LET alle_vider == LesteSegmenter(Bruksklasse)
       IN  /\ stats' = [ alle_vider |-> alle_vider, broer |-> nx_bridges(Graf(alle_vider)) ]
           /\ pc' = IF Len(alle_vider) = 0 THEN "status_done" ELSE "status"
    /\ Vegnett_MedOmkjoringStatus' = << >>
    /\ cur' = 1
    /\ UNCHANGED <<script, Vegnett, Bruksklasse, Bruer, Hoydebegrensning, Veg_TillatProfil,
                   Veg_TillatSegmentert, Veg_TillatKorridor, Flaskehalser, Aarsak,
                   kjorVars, nvdbVars>>

\* step 5: one pass of the insert loop over alle_vider
B07_SkrivStatus ==
    /\ script = "b07" /\ pc = "status"
    /\ Vegnett_MedOmkjoringStatus' =
           Append(Vegnett_MedOmkjoringStatus, StatusRad(stats.alle_vider[cur], stats.broer))
    /\ cur' = cur + 1
    /\ pc' = IF cur = Len(stats.alle_vider) THEN "status_done" ELSE "status"
    /\ UNCHANGED <<script, Vegnett, Bruksklasse, Bruer, Hoydebegrensning, Veg_TillatProfil,
                   stats, Veg_TillatSegmentert, Veg_TillatKorridor, Flaskehalser, Aarsak,
                   kjorVars, nvdbVars>>

InitBlindveg ==
    /\ script = "b07"
    /\ pc = "graf"
    /\ cur = 1
    /\ Vegnett = << >>
    /\ Bruksklasse \in SeqsUpTo(BlindvegUniverse, MaxSeg)
    /\ Bruer = << >>
    /\ Hoydebegrensning = << >>
    /\ Veg_TillatProfil = << >>
    /\ stats = << >>
    /\ Veg_TillatSegmentert = << >>
    /\ Veg_TillatKorridor = << >>
    /\ Flaskehalser = << >>
    /\ Aarsak = << >>
    /\ Vegnett_MedOmkjoringStatus \in { << >>, << [ vid |-> 5, fra |-> PktA, til |-> PktB,
                                                  UTEN_OMKJORING |-> "NEI" ] >> }
    /\ ForsteKjoring
    /\ NvdbHvile

NextBlindveg ==
    \/ B07_ByggGraf
    \/ B07_SkrivStatus

SpecBlindveg == InitBlindveg /\ [][NextBlindveg]_vars

\* the rows of Vegnett_MedOmkjoringStatus this run has written
StatusSkrevet ==
    IF pc = "graf" THEN {} ELSE 1..Len(Vegnett_MedOmkjoringStatus)

\* the network formed by all segments read, one edge per segment, without
\* segment i
NettUten(alle_vider, i) ==
    { kant_key(alle_vider[j].n_start, alle_vider[j].n_end) :
        j \in (1..Len(alle_vider)) \ {i} }

\* removing segment i from the network of all segments read increases the
\* number of connected components
FjerningDeler(alle_vider, i) ==
    Cardinality(Komponenter(Graf(alle_vider).noder, NettUten(alle_vider, i)))
        > Cardinality(Komponenter(Graf(alle_vider).noder, Graf(alle_vider).kanter))

\* another segment read joins the same two nodes as segment i
HarParallell(alle_vider, i) ==
    \E j \in (1..Len(alle_vider)) \ {i} :
        kant_key(alle_vider[j].n_start, alle_vider[j].n_end)
            = kant_key(alle_vider[i].n_start, alle_vider[i].n_end)

\* C23: a segment is marked UTEN_OMKJORING = "JA" if and only if removing
\* that one segment from the network formed by all segments read would
\* increase the number of connected components of the network.
C23_JaHvissFjerningDelerNettet ==
    \A i \in StatusSkrevet :
        Vegnett_MedOmkjoringStatus[i].UTEN_OMKJORING = "JA"
            <=> FjerningDeler(stats.alle_vider, i)

\* the equivalence holds for every segment that shares its pair of nodes
\* with no other segment
C23_UtenParallelleSegmenter ==
    \A i \in StatusSkrevet :
        ~HarParallell(stats.alle_vider, i) =>
            (Vegnett_MedOmkjoringStatus[i].UTEN_OMKJORING = "JA"
                <=> FjerningDeler(stats.alle_vider, i))

\* two segments between the same two nodes, both marked "JA"
C23_ParallelleMerketJa ==
    \E i \in StatusSkrevet :
        /\ HarParallell(stats.alle_vider, i)
        /\ Vegnett_MedOmkjoringStatus[i].UTEN_OMKJORING = "JA"

----------------------------------------------------------------------------
(* Bottlenecks of stage 04 and their cause in stage 05 (Normaltransport) *)

\* the cause text names at least one cause
HarAarsak(r) == r.AARSAK_DETALJERT # NullText /\ r.AARSAK_DETALJERT # "OK"

\* C24: every row that stage 04 emits as a bottleneck receives from stage
\* 05, both stages reading the same Veg_TillatSegmentert table, a cause text
\* that is neither NULL nor "OK".
C24_FlaskehalsFaarAarsak ==
    script = "normal" => \A i \in Klassifisert : HarAarsak(Aarsak[i])

\* the stretch stage 05 reads for a row has positive length
PositivLengde05(r) == FloatOr(r.s0, 0) < FloatOr(r.s1, LenkeSlutt)

\* every bottleneck whose stretch, as stage 05 reads it, has positive length
\* gets a cause
C24_PositivLengdeFaarAarsak ==
    script = "normal" =>
        \A i \in Klassifisert : PositivLengde05(Aarsak[i]) => HarAarsak(Aarsak[i])

\* a bottleneck of zero length that stage 05 has passed without a cause
C24_NullengdeUtenAarsak ==
    /\ script = "normal"
    /\ \E i \in Klassifisert :
          /\ Aarsak[i].s0 = Aarsak[i].s1
          /\ Aarsak[i].AARSAK_DETALJERT = NullText

----------------------------------------------------------------------------
(* A stage killed during its run and started again on the same inputs:      *)
(* Normaltransport/02, 03_segmenter_og_propager.py and                      *)
(* backfill_bruer_nulls.py.  A kill ends the process between two steps or   *)
(* inside the step that deletes and recreates an output; the tables stay as *)
(* they are at that moment.                                                 *)

\* backfill_bruer_nulls.py: the UpdateCursor is opened
Backfill_Start ==
    /\ script = "bfb" /\ pc = "start"
    /\ cur' = 1
    /\ pc' = IF Len(Bruer) = 0 THEN "done" ELSE "b_rows"
    /\ UNCHANGED <<script, Vegnett, Bruksklasse, Bruer, Hoydebegrensning, Veg_TillatProfil,
                   stats, Veg_TillatSegmentert, Veg_TillatKorridor, Flaskehalser, Aarsak,
                   kjorVars, nvdbVars, Vegnett_MedOmkjoringStatus>>

\* backfill_bruer_nulls.py: one pass of the update loop
Backfill_OppdaterRad ==
    /\ script = "bfb" /\ pc = "b_rows"
    /\ Bruer' = [ Bruer EXCEPT ![cur] = BackfillRad(Bruer[cur]) ]
    /\ cur' = cur + 1
    /\ pc' = IF cur = Len(Bruer) THEN "done" ELSE "b_rows"
    /\ UNCHANGED <<script, Vegnett, Bruksklasse, Hoydebegrensning, Veg_TillatProfil,
                   stats, Veg_TillatSegmentert, Veg_TillatKorridor, Flaskehalser, Aarsak,
                   kjorVars, nvdbVars, Vegnett_MedOmkjoringStatus>>

\* the run has reached its end
StegFerdig == pc \in {"done", "s03_done"}

\* what a table can hold when the process dies inside "if Exists: Delete"
\* followed by the tool that writes the table anew
UnderSletting(tab) == { tab, << >> }

\* the process is killed (Ctrl-C): nothing is rolled back
Drep ==
    /\ script \in {"v904", "normal", "bfb"}
    /\ ~StegFerdig /\ pc # "drept"
    /\ kjoring < MaxKjoring
    /\ pc' = "drept"
    /\ utfall' = "KeyboardInterrupt"
    /\ logg' = logg \cup { <<"drept", pc, cur>> }
    /\ Veg_TillatProfil' \in
          IF script = "v904" /\ pc = "start" THEN UnderSletting(Veg_TillatProfil)
          ELSE { Veg_TillatProfil }
    /\ Veg_TillatSegmentert' \in
          IF script = "normal" /\ pc = "start" THEN UnderSletting(Veg_TillatSegmentert)
          ELSE { Veg_TillatSegmentert }
    /\ Veg_TillatKorridor' \in
          IF script = "normal" /\ pc = "s03_dissolve" THEN UnderSletting(Veg_TillatKorridor)
          ELSE { Veg_TillatKorridor }
    /\ UNCHANGED <<script, cur, Vegnett, Bruksklasse, Bruer, Hoydebegrensning, stats,
                   Flaskehalser, Aarsak, Vegnett_MedOmkjoringStatus,
                   kjoring, forrige, katalog, nvdbVars>>

\* the same stage is started again: a new process, the tables as the kill
\* left them
Drept_KjorIgjen ==
    /\ pc = "drept"
    /\ kjoring' = kjoring + 1
    /\ utfall' = "kjorer"
    /\ stats' = << >>
    /\ cur' = 1
    /\ pc' = "start"
    /\ UNCHANGED <<script, Vegnett, Bruksklasse, Bruer, Hoydebegrensning, Veg_TillatProfil,
                   Veg_TillatSegmentert, Veg_TillatKorridor, Flaskehalser, Aarsak,
                   Vegnett_MedOmkjoringStatus, forrige, logg, katalog, nvdbVars>>

\* "forrige" holds Bruer as it was before the first run
InitDrept ==
    /\ script \in {"v904", "normal", "bfb"}
    /\ pc = "start"
    /\ cur = 1
    /\ Vegnett \in IF script = "v904" THEN VegTables ELSE { << >> }
    /\ Bruksklasse \in IF script = "v904" THEN NyBruksklasse ELSE { << >> }
    /\ Bruer \in CASE script = "v904" -> SeqsUpTo(BruUniverse, 1)
                   [] script = "bfb"  -> BruerMedAlleEg
                   [] OTHER           -> { << >> }
    /\ Hoydebegrensning = << >>
    /\ Veg_TillatProfil \in IF script = "normal" THEN SeqsUpTo(ProfilUniverse, 2) ELSE { << >> }
    /\ stats = << >>
    /\ Veg_TillatSegmentert = << >>
    /\ Veg_TillatKorridor = << >>
    /\ Flaskehalser = << >>
    /\ Aarsak = << >>
    /\ Vegnett_MedOmkjoringStatus = << >>
    /\ kjoring = 1
    /\ forrige = Bruer
    /\ utfall = "kjorer"
    /\ logg = {}
    /\ katalog = KomplettKatalog
    /\ NvdbHvile

NextDrept ==
    \/ V904_Opprett
    \/ V904_FyllRad
    \/ S03_LesStats
    \/ S03_OppdaterSegment
    \/ S03_Dissolve
    \/ S03_OppdaterKorridor
    \/ Backfill_Start
    \/ Backfill_OppdaterRad
    \/ Drep
    \/ Drept_KjorIgjen

SpecDrept == InitDrept /\ [][NextDrept]_vars

\* the output tables of a single uninterrupted run on the inputs
UavbruttProfil ==
    [ i \in 1..Len(Vegnett) |-> V904Row(Vegnett[i], Bruksklasse, Bruer, Hoydebegrensning) ]

UavbruttSegmentert ==
    [ i \in 1..Len(Veg_TillatProfil) |->
        SegRad(SegmentertKopi(Veg_TillatProfil)[i], SegStats(Veg_TillatProfil)) ]

UavbruttKorridor ==
    [ k \in 1..Len(Dissolve(Veg_TillatProfil)) |->
        KorrRad(Dissolve(Veg_TillatProfil)[k], SegStats(Veg_TillatProfil)) ]

UavbruttBruer == [ i \in 1..Len(forrige) |-> BackfillRad(forrige[i]) ]

\* the run that has ended follows a kill
FerdigEtterDrap == StegFerdig /\ kjoring >= 2

\* C25: after a stage has been killed at any point of its run, running the
\* same stage again to completion on the same inputs leaves its output
\* tables identical to those of a single uninterrupted run.
C25_DreptOgKjortIgjenSomUavbrutt ==
    FerdigEtterDrap =>
        CASE script = "v904"   -> Veg_TillatProfil = UavbruttProfil
          [] script = "normal" -> /\ Veg_TillatSegmentert = UavbruttSegmentert
                                  /\ Veg_TillatKorridor = UavbruttKorridor
          [] script = "bfb"    -> Bruer = UavbruttBruer
          [] OTHER             -> TRUE

\* C25 witness: the backfill was killed after it had filled a row, and the
\* second run has ended
C25_Witness ==
    /\ script = "bfb" /\ FerdigEtterDrap
    /\ \E e \in logg : e[1] = "drept" /\ e[2] = "b_rows" /\ e[3] = 2
    /\ forrige[1].LENGDE_M = None /\ Bruer[1].LENGDE_M # None

\* the corridor step was killed during its update loop and run again
C25_DreptIKorridorlokka ==
    /\ script = "normal" /\ FerdigEtterDrap
    /\ \E e \in logg : e[1] = "drept" /\ e[2] = "s03_korr"

----------------------------------------------------------------------------
(* A stage that aborts on an input check, run on a geodatabase that holds   *)
(* the output of an earlier successful run: Normaltransport/02,             *)
(* Normaltransport/04 and 05_klassifiser_aarsak-v2.py.                      *)

\* Veg_TillatSegmentert as stage 03 leaves it for a profile table
SegmentertAv(prof) ==
    [ i \in 1..Len(prof) |-> SegRad(SegmentertKopi(prof)[i], SegStats(prof)) ]

\* geodatabases for stage 04: complete, without IN_FC, without a weight
\* field in IN_FC, and with TILLATT_TONN only
Kataloger04 ==
    { KomplettKatalog,
      [ KomplettKatalog EXCEPT !.fc = @ \ {"Veg_TillatSegmentert"} ],
      [ KomplettKatalog EXCEPT !.felt.Veg_TillatSegmentert = {} ],
      [ KomplettKatalog EXCEPT !.felt.Veg_TillatSegmentert = {"TILLATT_TONN"} ] }

\* geodatabases for 05-v2: complete, and PROFIL_FC without any profile field
Kataloger05 ==
    { KomplettKatalog, [ KomplettKatalog EXCEPT !.felt.Veg_TillatProfil = {} ] }

\* the outputs an earlier successful run left
ForrigeProfil ==
    << [ NullRow([vid |-> 5, s0 |-> 0, s1 |-> 100]) EXCEPT
           !.BK_VERDI = 400, !.TILLATT_TONN = 400 ] >>

ForrigeFlaskehalser == Flaskehalsrader(SegmentertAv(ForrigeProfil), 1, TRUE)

ForrigeAarsak ==
    [ i \in 1..Len(F04Rad(ForrigeProfil[1])) |->
        F04Rad(ForrigeProfil[1])[i] @@
            [ AARSAK_DETALJERT |-> "VEG", VEG_BK_VERDI |-> 400, BRU_TONN_VERDI |-> None,
              MAKS_LENGDE_VERDI |-> None, FRI_HOYDE_VERDI |-> None ] ]

InitAvbrudd02 ==
    /\ script = "v904"
    /\ pc = "start"
    /\ katalog \in FCKataloger \cup FeltKataloger
    /\ Vegnett \in TabellI(katalog, "Vegnett",
                           { <<VegUniverse[i]>> : i \in 1..Len(VegUniverse) })
    /\ Bruksklasse \in TabellI(katalog, "Bruksklasse", SeqsUpTo(BKUniverse, 1))
    /\ Bruer \in TabellI(katalog, "Bruer", SeqsUpTo(BruUniverse, 1))
    /\ Hoydebegrensning \in TabellI(katalog, "Hoydebegrensning", SeqsUpTo(HoyUniverse, 1))
    /\ Veg_TillatProfil = ForrigeProfil
    /\ Veg_TillatSegmentert = << >>
    /\ Flaskehalser = << >>
    /\ Aarsak = << >>

InitAvbrudd04 ==
    /\ script = "normal"
    /\ pc = "s03_done"
    /\ katalog \in Kataloger04
    /\ Vegnett = << >> /\ Bruksklasse = << >> /\ Bruer = << >> /\ Hoydebegrensning = << >>
    /\ Veg_TillatProfil \in SeqsUpTo(ProfilUniverse, 1)
    /\ Veg_TillatSegmentert =
          IF "Veg_TillatSegmentert" \in katalog.fc THEN SegmentertAv(Veg_TillatProfil)
          ELSE << >>
    /\ Flaskehalser = ForrigeFlaskehalser
    /\ Aarsak = << >>

InitAvbrudd05 ==
    /\ script = "rot"
    /\ pc = "f04_done"
    /\ katalog \in Kataloger05
    /\ Vegnett = << >> /\ Bruksklasse = << >> /\ Bruer = << >> /\ Hoydebegrensning = << >>
    /\ Veg_TillatProfil \in SeqsUpTo(ProfilUniverse, 1)
    /\ Veg_TillatSegmentert = << >>
    /\ Flaskehalser = Flaskehalsrader(Veg_TillatProfil, 1, FALSE)
    /\ Aarsak = ForrigeAarsak

\* "forrige" holds the output tables as the earlier run left them
InitAvbrudd ==
    /\ InitAvbrudd02 \/ InitAvbrudd04 \/ InitAvbrudd05
    /\ cur = 1
    /\ stats = << >>
    /\ Veg_TillatKorridor = << >>
    /\ Vegnett_MedOmkjoringStatus = << >>
    /\ kjoring = 2
    /\ forrige = [ Veg_TillatProfil |-> Veg_TillatProfil, Flaskehalser |-> Flaskehalser,
                   Aarsak |-> Aarsak ]
    /\ utfall = "kjorer"
    /\ logg = {}
    /\ NvdbHvile

NextAvbrudd ==
    \/ V904_Opprett
    \/ V904_FyllRad
    \/ N04_Flaskehalser
    \/ A2_Opprett
    \/ A2_Klassifiser

SpecAvbrudd == InitAvbrudd /\ [][NextAvbrudd]_vars

\* the run has ended on an input check
AvbruttPaaInndata == pc = "avbrutt" /\ utfall \in {"RuntimeError", "OSError"}

\* the output table of the running stage is the one the earlier run left
UtdataSomForrige ==
    CASE script = "v904"   -> Veg_TillatProfil = forrige.Veg_TillatProfil
      [] script = "normal" -> Flaskehalser = forrige.Flaskehalser
      [] script = "rot"    -> Aarsak = forrige.Aarsak
      [] OTHER             -> TRUE

\* C26: when a stage aborts because an input check fails (missing feature
\* class or missing required field), the output table left by the previous
\* successful run still exists and is unchanged.
C26_AvbruddBevarerForrigeUtdata == AvbruttPaaInndata => UtdataSomForrige

\* Normaltransport/02 validates its inputs before it deletes OUT_FC: its
\* earlier output survives the abort
C26_V904BevarerForrigeUtdata ==
    (script = "v904" /\ AvbruttPaaInndata) => UtdataSomForrige

\* stage 04 has aborted on a missing weight field and the earlier
\* bottleneck table is empty
C26_Stage04TomEtterAvbrudd ==
    /\ script = "normal" /\ AvbruttPaaInndata /\ utfall = "RuntimeError"
    /\ forrige.Flaskehalser # << >> /\ Flaskehalser = << >>

----------------------------------------------------------------------------
(* ALLE_EG: written by alle_eg_tekst of nvdb_to_gdb_v904.py, read back by   *)
(* backfill_bruer_nulls.py.  A text is the sequence of its pieces: property *)
(* names, values, ":" and the separators.                                   *)

MaxEg == 2

NL   == "\n"
Pipe == "|"
Kolon == ":"

\* a text field that is NULL
IngenTekst == << NullText >>

\* properties of a bridge as the API returns them; one has no value
Egenskaper ==
    { [ navn |-> "Byggverkstype", verdi |-> "Platebru" ],
      [ navn |-> "Lengde",        verdi |-> "12" ],
      [ navn |-> "Status",        verdi |-> "Trafikkert" ],
      [ navn |-> "Driftsmerking", verdi |-> "B-123" ],
      [ navn |-> "Eier",          verdi |-> NullText ] }

\* property lists: every property at most once
Egenskapslister ==
    { eg \in SeqsUpTo(Egenskaper, MaxEg) :
        \A i, j \in 1..Len(eg) : i # j => eg[i] # eg[j] }

\* s.join(parts) on texts
RECURSIVE JoinTekst(_, _)
JoinTekst(deler, sep) ==
    IF Len(deler) = 0 THEN << >>
    ELSE IF Len(deler) = 1 THEN deler[1]
    ELSE deler[1] \o << sep >> \o JoinTekst(Tail(deler), sep)

\* alle_eg_tekst(eg): "navn: verdi" for every property that has a value,
\* joined by newlines; None for an empty list.  The texts stay far below
\* max_len.
alle_eg_tekst(eg) ==
    IF Len(eg) = 0 THEN IngenTekst
    ELSE LET med == SelectSeq(eg, LAMBDA e : e.verdi # NullText)
         IN  JoinTekst([ i \in 1..Len(med) |-> << med[i].navn, Kolon, med[i].verdi >> ], NL)

\* the first position of a piece in a text, 0 when it is not there
Finn(s, x) ==
    IF \E i \in 1..Len(s) : s[i] = x
    THEN CHOOSE i \in 1..Len(s) : s[i] = x /\ \A j \in 1..(i - 1) : s[j] # x
    ELSE 0

\* str.split(sep)
RECURSIVE Split(_, _)
Split(s, sep) ==
    IF Finn(s, sep) = 0 THEN << s >>
    ELSE << SubSeq(s, 1, Finn(s, sep) - 1) >> \o Split(SubSeq(s, Finn(s, sep) + 1, Len(s)), sep)

\* str.strip(): white space at both ends goes, a newline among it
RECURSIVE StripForan(_)
StripForan(s) == IF Len(s) > 0 /\ Head(s) = NL THEN StripForan(Tail(s)) ELSE s

RECURSIVE StripBak(_)
StripBak(s) ==
    IF Len(s) > 0 /\ s[Len(s)] = NL THEN StripBak(SubSeq(s, 1, Len(s) - 1)) ELSE s

Strip(s) == StripBak(StripForan(s))

\* str.lower() of a piece
Lower(a) ==
    CASE a = "Byggverkstype" -> "byggverkstype"
      [] a = "Lengde"        -> "lengde"
      [] a = "Status"        -> "status"
      [] a = "Driftsmerking" -> "driftsmerking"
      [] a = "Eier"          -> "eier"
      [] a = "Platebru"      -> "platebru"
      [] a = "Trafikkert"    -> "trafikkert"
      [] a = "B-123"         -> "b-123"
      [] OTHER               -> a

LowerTekst(s) == [ i \in 1..Len(s) |-> Lower(s[i]) ]

\* result[key] = val of a dict kept as the sequence of its items
DictSet(d, k, v) ==
    IF \E i \in 1..Len(d) : d[i][1] = k
    THEN [ i \in 1..Len(d) |-> IF d[i][1] = k THEN << k, v >> ELSE d[i] ]
    ELSE Append(d, << k, v >>)

\* parse_alle_eg(tekst): the text is split on "|", every token holding a ":"
\* is parted at its first ":" into a lower-case key and a value
RECURSIVE ParseTokens(_, _)
ParseTokens(tokens, result) ==
    IF Len(tokens) = 0 THEN result
    ELSE LET token == Strip(Head(tokens))
             k     == Finn(token, Kolon)
         IN  IF k = 0 THEN ParseTokens(Tail(tokens), result)
             ELSE ParseTokens(Tail(tokens),
                              DictSet(result,
                                      LowerTekst(Strip(SubSeq(token, 1, k - 1))),
                                      Strip(SubSeq(token, k + 1, Len(token)))))

parse_alle_eg(tekst) ==
    IF tekst = IngenTekst \/ tekst = << >> THEN << >>
    ELSE ParseTokens(Split(tekst, Pipe), << >>)

\* "substring in k" for the keys and substrings at hand
Inneholder(k, substring) == \E i \in 1..Len(k) : k[i] = substring

\* finn_verdi(parsed, substring): the value of the first key that holds the
\* substring
finn_verdi(parsed, substring) ==
    LET treff == SelectSeq(parsed, LAMBDA kv : Inneholder(kv[1], substring))
    IN  IF Len(treff) = 0 THEN IngenTekst ELSE treff[1][2]

\* the number _num_re finds in a piece, in tenths; None when it holds no digit
Tall(a) ==
    CASE a = "12"    -> 120
      [] a = "B-123" -> 1230
      [] OTHER       -> None

\* parse_float(x): the first number in the text
parse_float(x) ==
    LET tall == SelectSeq(x, LAMBDA a : Tall(a) # None)
    IN  IF Len(tall) = 0 THEN None ELSE Tall(tall[1])

\* "if v: row[i] = v.strip()"
FyllTekst(felt, v) ==
    IF felt # IngenTekst THEN felt
    ELSE IF v = IngenTekst \/ v = << >> THEN felt
    ELSE Strip(v)

\* "for k, v in parsed.items(): if k == 'lengde': ...; break"
FyllLengde(felt, parsed) ==
    LET treff == SelectSeq(parsed, LAMBDA kv : kv[1] = << "lengde" >>)
    IN  IF felt # None THEN felt
        ELSE IF Len(treff) = 0 THEN felt
        ELSE IF parse_float(treff[1][2]) = None THEN felt
        ELSE parse_float(treff[1][2])

\* the body of the update loop of backfill_bruer_nulls.py for one row
BackfillFraAlleEg(row) ==
    IF row.ALLE_EG = IngenTekst \/ row.ALLE_EG = << >> THEN row
    ELSE LET parsed == parse_alle_eg(row.ALLE_EG)
         IN  [ row EXCEPT
                 !.BRUTYPE       = FyllTekst(@, finn_verdi(parsed, "byggverkstype")),
                 !.LENGDE_M      = FyllLengde(@, parsed),
                 !.TRAFIKKSTATUS = FyllTekst(@, finn_verdi(parsed, "status")),
                 !.DRIFTSMERKING = FyllTekst(@, finn_verdi(parsed, "driftsmerking")) ]

\* backfill_bruer_nulls.py on detailed rows: one pass of the update loop
Backfill_FraAlleEg ==
    /\ script = "bfb" /\ pc = "eg_rows"
    /\ Bruer' = [ Bruer EXCEPT ![cur] = BackfillFraAlleEg(Bruer[cur]) ]
    /\ cur' = cur + 1
    /\ pc' = IF cur = Len(Bruer) THEN "done" ELSE "eg_rows"
    /\ UNCHANGED <<script, Vegnett, Bruksklasse, Hoydebegrensning, Veg_TillatProfil,
                   stats, Veg_TillatSegmentert, Veg_TillatKorridor, Flaskehalser, Aarsak,
                   kjorVars, nvdbVars, Vegnett_MedOmkjoringStatus>>

\* a value a download has put into a field
Nedlastet == << "nedlastet" >>

\* Bruer holds the row of the bridge whose property list "server" holds:
\* ALLE_EG as alle_eg_tekst wrote it, and any of the four fields NULL
InitAlleEg ==
    /\ script = "bfb"
    /\ pc = "eg_rows"
    /\ cur = 1
    /\ Vegnett = << >>
    /\ Bruksklasse = << >>
    /\ server \in Egenskapslister
    /\ \E nuller \in SUBSET {"BRUTYPE", "LENGDE_M", "TRAFIKKSTATUS", "DRIFTSMERKING"} :
          Bruer = << [ ALLE_EG       |-> alle_eg_tekst(server),
                       BRUTYPE       |-> IF "BRUTYPE" \in nuller THEN IngenTekst ELSE Nedlastet,
                       LENGDE_M      |-> IF "LENGDE_M" \in nuller THEN None ELSE 990,
                       TRAFIKKSTATUS |-> IF "TRAFIKKSTATUS" \in nuller THEN IngenTekst
                                         ELSE Nedlastet,
                       DRIFTSMERKING |-> IF "DRIFTSMERKING" \in nuller THEN IngenTekst
                                         ELSE Nedlastet ] >>
    /\ Hoydebegrensning = << >>
    /\ Veg_TillatProfil = << >>
    /\ stats = << >>
    /\ Veg_TillatSegmentert = << >>
    /\ Veg_TillatKorridor = << >>
    /\ Flaskehalser = << >>
    /\ Aarsak = << >>
    /\ Vegnett_MedOmkjoringStatus = << >>
    /\ kjoring = 1
    /\ forrige = Bruer
    /\ utfall = "kjorer"
    /\ logg = {}
    /\ katalog = KomplettKatalog
    /\ klient = << >>
    /\ foresporsler = << >>
    /\ svar = << >>
    /\ ventet = << >>
    /\ err = 0
    /\ innsatt = 0
    /\ cnt_rows = 0

NextAlleEg == Backfill_FraAlleEg

SpecAlleEg == InitAlleEg /\ [][NextAlleEg]_vars

\* the value the property of that name has in the list, NullText without one
VerdiAv(eg, navn) ==
    LET treff == SelectSeq(eg, LAMBDA e : e.navn = navn /\ e.verdi # NullText)
    IN  IF Len(treff) = 0 THEN NullText ELSE treff[1].verdi

\* a text field that was NULL holds exactly the value of its property
TekstFylt(foer, etter, eg, navn) ==
    (foer = IngenTekst /\ VerdiAv(eg, navn) # NullText) => etter = << VerdiAv(eg, navn) >>

\* C27: for an ALLE_EG text that alle_eg_tekst wrote from a bridge's property
\* list, the backfill fills each NULL field among BRUTYPE, LENGDE_M,
\* TRAFIKKSTATUS and DRIFTSMERKING with exactly the value the matching
\* property has in that list.
C27_BackfillGirEgenskapensVerdi ==
    (script = "bfb" /\ pc = "done") =>
        /\ TekstFylt(forrige[1].BRUTYPE, Bruer[1].BRUTYPE, server, "Byggverkstype")
        /\ TekstFylt(forrige[1].TRAFIKKSTATUS, Bruer[1].TRAFIKKSTATUS, server, "Status")
        /\ TekstFylt(forrige[1].DRIFTSMERKING, Bruer[1].DRIFTSMERKING, server, "Driftsmerking")
        /\ (forrige[1].LENGDE_M = None /\ VerdiAv(server, "Lengde") # NullText)
              => Bruer[1].LENGDE_M = Tall(VerdiAv(server, "Lengde"))

\* the list has a single property with a value
EnEgenskap == Len(SelectSeq(server, LAMBDA e : e.verdi # NullText)) <= 1

\* with a single property in the list the fields are filled as stated
C27_EnEgenskapGirVerdien == EnEgenskap => C27_BackfillGirEgenskapensVerdi

\* a field that held a value is left as it was
C27_FylteFeltUrort ==
    (script = "bfb" /\ pc = "done") =>
        /\ forrige[1].BRUTYPE # IngenTekst => Bruer[1].BRUTYPE = forrige[1].BRUTYPE
        /\ forrige[1].LENGDE_M # None => Bruer[1].LENGDE_M = forrige[1].LENGDE_M

\* BRUTYPE was filled with the rest of the text
C27_BrutypeMedResten ==
    /\ script = "bfb" /\ pc = "done"
    /\ forrige[1].BRUTYPE = IngenTekst
    /\ Len(Bruer[1].BRUTYPE) > 1

----------------------------------------------------------------------------
(* The row count hent_bruer reports: cnt_rows, logged as "rader" at the end *)
(* and as "skrevet" during the fetch.                                       *)

\* hent_bruer has gone through every stedfesting
HentBruerFerdig == script = "hent_bruer" /\ pc = "ferdig" /\ cur = Len(server) + 1

\* C28: at the end of hent_bruer, for every sequence of successful and
\* failing inserts, the row count the function reports as written equals the
\* number of rows actually present in the Bruer feature class.
C28_RapportertErAntallRader == HentBruerFerdig => cnt_rows = Len(Bruer)

\* the reported count is the number of inserts tried: the rows written plus
\* the inserts that failed
C28_RapportertErForsokte ==
    /\ cnt_rows = innsatt + err
    /\ Len(Bruer) = innsatt

\* when no insert failed the reported count is the number of rows
C28_UtenFeilStemmerTallet == (HentBruerFerdig /\ err = 0) => cnt_rows = Len(Bruer)

\* an insert failed and the reported count is above the number of rows
C28_RapportertForHoyt == HentBruerFerdig /\ err >= 1 /\ cnt_rows > Len(Bruer)

----------------------------------------------------------------------------
(* The FLASKEHALS_* flags against DIM_KILDE on the rows of Tømmertransport  *)
(* 02 (segments) and 03 (corridors).                                        *)

\* the FLASKEHALS_* flag of a category on a row
FlaggAv(r, kat) ==
    CASE kat = "VEG"    -> r.FLASKEHALS_VEG
      [] kat = "BRU"    -> r.FLASKEHALS_BRU
      [] kat = "LENGDE" -> r.FLASKEHALS_LENGDE
      [] kat = "HOYDE"  -> r.FLASKEHALS_HOYDE
      [] OTHER          -> NullText

NoeFlaggJa(r) == \E kat \in {"VEG", "BRU", "LENGDE", "HOYDE"} : FlaggAv(r, kat) = "JA"

\* on a row with a flag "JA" the flag of the DIM_KILDE category is "JA"
DimKildeFlaggJa(r) == NoeFlaggJa(r) => FlaggAv(r, r.DIM_KILDE) = "JA"

\* C29: on every segment row and every corridor row on which at least one
\* FLASKEHALS_* flag is "JA", the flag of the category named by DIM_KILDE is
\* "JA".
C29_DimKildeHarFlaggJa ==
    script = "tommer" =>
        /\ \A r \in Range(Veg_TillatProfil) : DimKildeFlaggJa(r)
        /\ \A r \in Range(Veg_TillatSegmentert) : DimKildeFlaggJa(r)
        /\ \A r \in Range(Veg_TillatKorridor) : DimKildeFlaggJa(r)

\* on the segment rows the flag of the DIM_KILDE category is "JA"
C29_SegmentDimKildeHarFlaggJa ==
    script = "tommer" =>
        /\ \A r \in Range(Veg_TillatProfil) : DimKildeFlaggJa(r)
        /\ \A r \in Range(Veg_TillatSegmentert) : DimKildeFlaggJa(r)

\* a corridor whose only flag is that of the bridge, and DIM_KILDE names
\* another category
C29_KorridorBruUtenDimKilde ==
    /\ script = "tommer" /\ pc = "t03_done"
    /\ \E r \in Range(Veg_TillatKorridor) :
          /\ r.FLASKEHALS_BRU = "JA"
          /\ r.DIM_KILDE # "BRU"
          /\ FlaggAv(r, r.DIM_KILDE) = "NEI"

====
